---- MODULE Spec2Model ----
(***************************************************************************)
(* The realtime message broker of hybrid-chat: WebSocketServer (per        *)
(* connection inbound queue, dispatch, close handling, broadcast),         *)
(* MessageHandler (LOGIN / TEXT / media / GET_HISTORY), SessionManager     *)
(* (the session registry) and the file-backed StorageService.              *)
(*                                                                         *)
(* The server runs on one event loop.  A step of the model is one          *)
(* synchronous segment of the code: from an event (connection, message,    *)
(* close, error) or from the resumption of an `await`, up to the next      *)
(* `await` that waits for I/O.  With the file-backed store, initialized by *)
(* start(), that is the fs.writeFile of saveMessage; getMessagesBefore     *)
(* reads the in-memory array and its `await` ends in the same turn of the  *)
(* event loop.  `await this.handleMessage(...)` of the drain loop is a     *)
(* step boundary when payloads are waiting.  Time stamps (Date.now()) are  *)
(* left out of the messages; a uuid is a fresh number.                     *)
(*                                                                         *)
(* Two faults are inputs of the model.  The store may be one whose every   *)
(* call rejects (storage = "failing"): its saveMessage keeps nothing and   *)
(* its getMessagesBefore throws; or one whose reads and writes fail inside *)
(* the store (storage = "unreadable": the file held JSON that is no array, *)
(* or the table's queries return an error): its saveMessage rejects and    *)
(* its getMessagesBefore returns [].  And ws.send may throw while a        *)
(* payload is handled (the payload's field `fails` counts the calls that   *)
(* throw) or always on some connections (broken); the handlers' try/catch  *)
(* blocks are followed as written.  Where a message's timestamp matters    *)
(* (SpecBackends: the file-backed store beside the table-backed            *)
(* SupabaseStorageService) the messages carry it.                          *)
(*                                                                         *)
(* The server specifications leave the store's file out.  The store        *)
(* specifications (SpecSaved, SpecStore) follow StorageService by itself:  *)
(* its list, its file and its calls, each call a step up to its next       *)
(* await (initialize: mkdir and readFile taken as one; saveMessage: the    *)
(* fs.writeFile), so that calls may overlap as the code allows.            *)
(***************************************************************************)
EXTENDS Integers, Sequences, FiniteSets, TLC

\* ------------------------------------------------------------------ bounds
MaxPayloads == 2      \* Spec: payloads received over all connections
MaxChat == 2          \* SpecChat: payloads received over all connections
MaxBurst == 3         \* SpecBurst: payloads received over all connections
MaxFail == 2          \* SpecFail: payloads received over all connections
MaxThrow == 3         \* SpecThrow: payloads received on the third connection
MaxSaves == 3         \* the store specifications: saveMessage calls
MaxLimit == 3         \* the store specifications: the largest limit of a query
MaxHistory == 2       \* SpecHistory: payloads received over all connections
OldIds == 100         \* ids above it belong to the messages of an earlier run
MaxBroken == 2        \* SpecBroken: payloads received over all connections
MaxUnreadable == 3    \* SpecUnreadable: payloads received over all connections
MaxSender == 3        \* SpecSender: payloads received over all connections
MaxRelogin == 3       \* SpecRelogin: payloads received over all connections
MaxSockets == 3       \* SpecManager: WebSocket objects a manager creates
MaxPaged == 3         \* SpecPaging: the ids a saved message may carry
MaxLive == 2          \* SpecLive: payloads received over all connections
MaxRows == 3          \* SpecBackends: messages saved to the two stores
MaxStamp == 2         \* SpecBackends: the timestamps are 1 .. MaxStamp
MaxIds == 3           \* SpecIds: payloads received over all connections
MaxLogin == 2         \* SpecLogin: payloads received over all connections
MaxCalls == 2         \* the store specifications: store calls that may overlap

\* ------------------------------------------------------- program constants
LOGIN_HISTORY_LIMIT == 50
DEFAULT_HISTORY_LIMIT == 20
OPEN == 1

Conns == {1, 2, 3}        \* the connection handles
NoConn == 0                \* null: no connection
NoUser == "null"
NoError == "null"
NoTask == [pc |-> "none"]

\* readyState values other than OPEN (NONE: the handle is not yet connected)
NONE == OPEN - 2
CONNECTING == OPEN - 1
NoSocket == 0
maxReconnectAttempts == 5
CLOSING == OPEN + 1
CLOSED == OPEN + 2

VARIABLES
    readyState,   \* ws.readyState of every connection handle (NONE: not yet connected)
    hasQueue,     \* ws \in messageQueues
    queue,        \* queueInfo.queue of the connection's queue object
    processing,   \* queueInfo.processing
    tasks,        \* per connection: the processMessageQueue calls in flight, each at an await
    closeTask,    \* per connection: the handleClose call in flight (awaiting saveMessage)
    sessions,     \* SessionManager.sessions, in Map insertion order
    messages,     \* StorageService.messages
    outbox,       \* per connection: the frames ws.send delivered, in order
    nextId,       \* number of uuids generated so far
    budget,       \* number of payloads the clients may still send
    arrived,      \* history: per connection, the payloads enqueued, in arrival order
    storage,      \* the store the server works on: "file" (StorageService), "failing"
                  \* or "unreadable"
    initialized,  \* StorageService.initialized
    file,         \* the content of the file at storagePath
    calls,        \* per caller: the store call in flight, at an await
    saved,        \* history: the messages saveMessage has pushed, with how the call ended
    result,       \* the last query and what it returned
    broken,       \* the connections whose ws.send throws
    rows,         \* the rows of the remote table `messages`, in the order of their insertion
    loaded,       \* a caller paging backwards: the pages it was returned, in call order
    pageLimit,    \* the limit that caller passes (0: it has not called yet)
    sockets,      \* the WebSocket objects a WebSocketManager has created: their readyState
    current,      \* WebSocketManager.ws: the number of its socket (NoSocket: null)
    reconnectAttempts,  \* WebSocketManager.reconnectAttempts
    shouldReconnect,    \* WebSocketManager.shouldReconnect
    reconnectTimer,     \* the timeout of scheduleReconnect is pending
    lastCall      \* history: the last call of the application, connect or disconnect

\* the state of the server, apart from the store's list, and that of the store
server == <<readyState, hasQueue, queue, processing, tasks, closeTask, sessions,
            outbox, nextId, budget, arrived, broken>>
store == <<storage, initialized, file, calls, saved, result, rows>>
\* the state of the store's callers on the client side
manager == <<sockets, current, reconnectAttempts, shouldReconnect, reconnectTimer, lastCall>>
client == <<loaded, pageLimit, manager>>

vars == <<readyState, hasQueue, queue, processing, tasks, closeTask, sessions,
          messages, outbox, nextId, budget, arrived, storage, initialized, file,
          calls, saved, result, broken, rows, loaded, pageLimit, sockets, current,
          reconnectAttempts, shouldReconnect, reconnectTimer, lastCall>>

\* --------------------------------------------------------------- payloads
\* A received payload: kind "bad" is a string that is not JSON, kind "value"
\* JSON that is not an object; otherwise the parsed object.  A missing string
\* field is "", a missing id is 0 (both falsy in the code's tests `!data.x` and `data.id || ...`).  lastMessageId and
\* limit are JavaScript values with their typeof.
JsUndefined == [t |-> "undefined", v |-> 0]
JsNumber(n) == [t |-> "number", v |-> n]
JsString(id) == [t |-> "string", v |-> id]

Payload(type, userId, content, id, lastMessageId, limit) ==
    [kind |-> "json", type |-> type, userId |-> userId, content |-> content, id |-> id,
     lastMessageId |-> lastMessageId, limit |-> limit, senderId |-> "", fails |-> 0]
\* a string that JSON.parse rejects
BadPayload == [Payload("", "", "", 0, JsUndefined, JsUndefined) EXCEPT !.kind = "bad"]
\* JSON that is no object: null, a number, a string
NonObject == [Payload("", "", "", 0, JsUndefined, JsUndefined) EXCEPT !.kind = "value"]
\* the payload during whose handling the first k calls of ws.send throw
Failing(data, k) == [data EXCEPT !.fails = k]

Login(u) == Payload("LOGIN", u, "", 0, JsUndefined, JsUndefined)
Text(content, id) == Payload("TEXT", "", content, id, JsUndefined, JsUndefined)
Media(type, content) == Payload(type, "", content, 0, JsUndefined, JsUndefined)
GetHistory(lastMessageId, limit) == Payload("GET_HISTORY", "", "", 0, lastMessageId, limit)
Other(type) == Payload(type, "", "x", 0, JsUndefined, JsUndefined)
\* the payload with a senderId of the client's ("" is an absent one)
From(data, senderId) == [data EXCEPT !.senderId = senderId]

MediaTypes == {"IMAGE", "VIDEO", "AUDIO"}
WhitespaceOnly == {"", " "}

\* String.prototype.trim().length === 0
TrimIsEmpty(str) == str \in WhitespaceOnly

\* ------------------------------------------------------------ SessionManager
SessionIndex(sess, userId) ==
    {i \in 1 .. Len(sess) : sess[i].userId = userId}

\* a createSession that starts the map anew
createSessionAlone(sess, userId, ws) == <<[userId |-> userId, ws |-> ws]>>
\* Map.set: a new key is appended, an existing key keeps its position
createSession(sess, userId, ws) ==
    IF SessionIndex(sess, userId) = {}
    THEN Append(sess, [userId |-> userId, ws |-> ws])
    ELSE [i \in 1 .. Len(sess) |->
            IF sess[i].userId = userId THEN [userId |-> userId, ws |-> ws] ELSE sess[i]]

getSession(sess, userId) ==
    IF SessionIndex(sess, userId) = {} THEN NoConn
    ELSE sess[CHOOSE i \in SessionIndex(sess, userId) : TRUE].ws

removeSession(sess, userId) ==
    SelectSeq(sess, LAMBDA s : s.userId # userId)

\* the first entry, in insertion order, whose ws is the connection
findUserIdByWs(sess, ws) ==
    LET hits == {i \in 1 .. Len(sess) : sess[i].ws = ws}
    IN  IF hits = {} THEN NoUser
        ELSE sess[CHOOSE i \in hits : \A j \in hits : i <= j].userId

getAllSessions(sess) == sess

\* ------------------------------------------------------------ StorageService
\* Array.prototype.slice(start): a negative start counts from the end
slice(msgs, start) ==
    LET len == Len(msgs)
        from == IF start < 0
                THEN (IF len + start > 0 THEN len + start ELSE 0)
                ELSE (IF start < len THEN start ELSE len)
    IN  SubSeq(msgs, from + 1, len)

\* a saveMessage that writes over the last message of the list
saveMessageOver(msgs, message) ==
    IF msgs = << >> THEN <<message>> ELSE [msgs EXCEPT ![Len(msgs)] = message]
\* a saveMessage that puts the message first: messages.unshift
saveMessageFirst(msgs, message) == <<message>> \o msgs
\* the synchronous part of saveMessage on an initialized store: messages.push
saveMessage(msgs, message) == Append(msgs, message)

\* a getMessagesBefore whose page ends with the message asked for
getMessagesBeforeInclusive(msgs, messageId, limit) ==
    LET hits == {i \in 1 .. Len(msgs) : msgs[i].id = messageId}
    IN  IF hits = {} THEN slice(msgs, 0 - limit)
        ELSE LET messageIndex == (CHOOSE i \in hits : \A j \in hits : i <= j) - 1
                 startIndex == IF messageIndex - limit > 0 THEN messageIndex - limit ELSE 0
             IN  SubSeq(msgs, startIndex + 1, messageIndex + 1)
\* messageId 0 stands for null / undefined, which is no message's id
getMessagesBefore(msgs, messageId, limit) ==
    LET hits == {i \in 1 .. Len(msgs) : msgs[i].id = messageId}
    IN  IF hits = {} THEN slice(msgs, 0 - limit)
        ELSE LET messageIndex == (CHOOSE i \in hits : \A j \in hits : i <= j) - 1
                 startIndex == IF messageIndex - limit > 0 THEN messageIndex - limit ELSE 0
             IN  SubSeq(msgs, startIndex + 1, messageIndex)

getAllMessages(msgs) == msgs

\* ------------------------------------------------------------------ frames
ErrorFrame(text) == [type |-> "ERROR", message |-> text]
LoginSuccess(userId) == [type |-> "LOGIN_SUCCESS", userId |-> userId]
HistoryResponse(msgs, hasMore) ==
    [type |-> "HISTORY_RESPONSE", messages |-> msgs, hasMore |-> hasMore]
SystemMessage(id, content) == [type |-> "SYSTEM", id |-> id, content |-> content]
ChatMessage(type, id, senderId, content) ==
    [type |-> type, id |-> id, senderId |-> senderId, content |-> content]

\* `${uuidv4()}-${Date.now()}`: the n-th generated id
uuid(n) == n + 1

\* The handlers work on h = [rs, storage, fails, broken, sessions, messages,
\* outbox, nextId]: rs is readyState, storage the kind of store and broken the
\* connections whose ws.send throws, all read only; fails is the number of
\* ws.send calls of the running handler that are still to throw.

\* ws.send of the transport: a frame reaches a connection that is OPEN
wsSend(h, ws, frame) ==
    IF h.rs[ws] = OPEN THEN [h EXCEPT !.outbox[ws] = Append(@, frame)] ELSE h

\* ws.send as the code calls it: it returns, or it throws
send(h, ws, frame) ==
    IF h.fails > 0 THEN [h |-> [h EXCEPT !.fails = @ - 1], threw |-> TRUE]
    ELSE IF ws \in h.broken THEN [h |-> h, threw |-> TRUE]
    ELSE [h |-> wsSend(h, ws, frame), threw |-> FALSE]

\* an error response that is never attempted
sendErrorResponseDropped(h, ws, errorMessage) == h
\* the send is attempted on an open connection; what it throws is caught
sendErrorResponse(h, ws, errorMessage) ==
    IF h.rs[ws] = OPEN THEN send(h, ws, ErrorFrame(errorMessage)).h ELSE h

\* forEach over getAllSessions(), from session number i on; what a send
\* throws is caught
RECURSIVE broadcastFrom(_, _, _, _)
broadcastFrom(h, message, excludeWs, i) ==
    LET all == getAllSessions(h.sessions)
    IN  IF i > Len(all) THEN h
        ELSE LET session == all[i]
                 h1 == IF session.ws # excludeWs /\ h.rs[session.ws] = OPEN
                       THEN send(h, session.ws, message).h
                       ELSE h
             IN  broadcastFrom(h1, message, excludeWs, i + 1)

\* a forEach without the try/catch: the first send that throws ends it
RECURSIVE broadcastFromUntilThrow(_, _, _, _)
broadcastFromUntilThrow(h, message, excludeWs, i) ==
    LET all == getAllSessions(h.sessions)
    IN  IF i > Len(all) THEN h
        ELSE LET session == all[i]
                 a == IF session.ws # excludeWs /\ h.rs[session.ws] = OPEN
                      THEN send(h, session.ws, message)
                      ELSE [h |-> h, threw |-> FALSE]
             IN  IF a.threw THEN a.h
                 ELSE broadcastFromUntilThrow(a.h, message, excludeWs, i + 1)

broadcastUntilThrow(h, message, excludeWs) == broadcastFromUntilThrow(h, message, excludeWs, 1)
broadcast(h, message, excludeWs) == broadcastFrom(h, message, excludeWs, 1)

\* ------------------------------------------------------------ MessageHandler
\* a validateMessage without the SYSTEM case
validateMessageLenient(data) ==
    IF data.kind = "value" THEN "Message must be an object"
    ELSE IF data.type = "" THEN "Message must have a valid type field"
    ELSE IF data.type = "LOGIN" THEN
        (IF data.userId = "" THEN "LOGIN message must have a valid userId field"
         ELSE NoError)
    ELSE IF data.type \in {"TEXT"} \cup MediaTypes THEN
        (IF data.content = "" THEN data.type \o " message must have a valid content field"
         ELSE NoError)
    ELSE NoError
validateMessage(data) ==
    IF data.kind = "value" THEN "Message must be an object"
    ELSE IF data.type = "" THEN "Message must have a valid type field"
    ELSE IF data.type = "LOGIN" THEN
        (IF data.userId = "" THEN "LOGIN message must have a valid userId field"
         ELSE NoError)
    ELSE IF data.type \in {"TEXT"} \cup MediaTypes THEN
        (IF data.content = "" THEN data.type \o " message must have a valid content field"
         ELSE NoError)
    ELSE IF data.type = "GET_HISTORY" THEN
        (IF data.lastMessageId.t \notin {"undefined", "string"}
         THEN "GET_HISTORY message lastMessageId must be a string"
         ELSE IF data.limit.t \notin {"undefined", "number"}
         THEN "GET_HISTORY message limit must be a number"
         ELSE NoError)
    ELSE IF data.type = "SYSTEM" THEN "SYSTEM messages cannot be sent by clients"
    ELSE NoError

\* How a handler leaves its synchronous segment: it has returned, it waits at
\* an await, or it has thrown
Done(h) == [h |-> h, wait |-> NoTask, threw |-> FALSE]
Await(h, task) == [h |-> h, wait |-> task, threw |-> FALSE]
Throw(h) == [h |-> h, wait |-> NoTask, threw |-> TRUE]

\* ws.send(...); return
Reply(h, ws, frame) ==
    LET a == send(h, ws, frame)
    IN  IF a.threw THEN Throw(a.h) ELSE Done(a.h)

\* try { r } catch (error) { ws.send(ERROR text) }
Catch(r, ws, text) == IF r.threw THEN Reply(r.h, ws, ErrorFrame(text)) ELSE r

\* a saveMessage that has not pushed the message when it awaits its write
storeSaveDeferred(h, message) == h
\* try { await this.storageService.saveMessage(message) } catch { }, up to
\* the await: the file-backed store has pushed the message, the failing
\* store has rejected
storeSave(h, message) ==
    IF h.storage \in {"failing", "unreadable"} THEN h
    ELSE [h EXCEPT !.messages = saveMessage(@, message)]

\* a getMessagesBefore without its try/catch: the failed read rejects the call
storeReadPropagating(h, messageId, limit) ==
    IF h.storage \in {"failing", "unreadable"} THEN [threw |-> TRUE, messages |-> << >>]
    ELSE [threw |-> FALSE, messages |-> getMessagesBefore(h.messages, messageId, limit)]
\* await this.storageService.getMessagesBefore(messageId, limit): the failing
\* store rejects; in the unreadable store the read throws inside the try
\* block of getMessagesBefore, whose catch returns []
storeRead(h, messageId, limit) ==
    IF h.storage = "failing" THEN [threw |-> TRUE, messages |-> << >>]
    ELSE IF h.storage = "unreadable" THEN [threw |-> FALSE, messages |-> << >>]
    ELSE [threw |-> FALSE, messages |-> getMessagesBefore(h.messages, messageId, limit)]

\* a handleLogin that sends the history before LOGIN_SUCCESS
handleLoginHistoryFirst(h, ws, data) ==
    LET userId == data.userId
    IN  IF TrimIsEmpty(userId)
        THEN Reply(h, ws, ErrorFrame("Invalid user ID"))
        ELSE LET h1 == [h EXCEPT !.sessions = createSession(@, userId, ws)]
                 r == storeRead(h1, 0, LOGIN_HISTORY_LIMIT)
                 recentMessages == r.messages
                 h2 == IF ~r.threw /\ Len(recentMessages) > 0
                       THEN send(h1, ws, HistoryResponse(recentMessages,
                                        Len(recentMessages) = LOGIN_HISTORY_LIMIT)).h
                       ELSE h1
                 a == send(h2, ws, LoginSuccess(userId))
                 h3 == a.h
                 systemMessage == SystemMessage(uuid(h3.nextId), userId \o " joined the chat")
                 h4 == storeSave([h3 EXCEPT !.nextId = @ + 1], systemMessage)
             IN  Catch(IF a.threw THEN Throw(h3)
                       ELSE Await(h4, [pc |-> "handleLogin:save", message |-> systemMessage]),
                       ws, "Login failed")
\* handleLogin up to `await saveMessage(systemMessage)`
handleLogin(h, ws, data) ==
    LET userId == data.userId
    IN  IF TrimIsEmpty(userId)
        THEN Reply(h, ws, ErrorFrame("Invalid user ID"))
        ELSE LET h1 == [h EXCEPT !.sessions = createSession(@, userId, ws)]
                 a == send(h1, ws, LoginSuccess(userId))
                 h2 == a.h
                 r == storeRead(h2, 0, LOGIN_HISTORY_LIMIT)
                 recentMessages == r.messages
                 h3 == IF ~r.threw /\ Len(recentMessages) > 0
                       THEN send(h2, ws, HistoryResponse(recentMessages,
                                        Len(recentMessages) = LOGIN_HISTORY_LIMIT)).h
                       ELSE h2
                 systemMessage == SystemMessage(uuid(h3.nextId), userId \o " joined the chat")
                 h4 == storeSave([h3 EXCEPT !.nextId = @ + 1], systemMessage)
             IN  Catch(IF a.threw THEN Throw(h2)
                       ELSE Await(h4, [pc |-> "handleLogin:save", message |-> systemMessage]),
                       ws, "Login failed")

\* a join notice that is sent to the logging-in connection as well
handleLoginSavedToAll(h, ws, t) == Done(broadcast(h, t.message, NoConn))
\* ... and the rest: the save has ended (thrown or not), broadcast
handleLoginSaved(h, ws, t) == Done(broadcast(h, t.message, ws))

\* a message that takes the senderId of the payload when there is one
ConstructMessageTrusting(h, type, userId, data) ==
    ChatMessage(type, IF data.id # 0 THEN data.id ELSE uuid(h.nextId),
                IF data.senderId # "" THEN data.senderId ELSE userId, data.content)
\* the message a TEXT or media handler constructs
ConstructMessage(h, type, userId, data) ==
    ChatMessage(type, IF data.id # 0 THEN data.id ELSE uuid(h.nextId), userId, data.content)

ConsumeId(h, data) == IF data.id # 0 THEN h ELSE [h EXCEPT !.nextId = @ + 1]

handleTextMessage(h, ws, data) ==
    LET userId == findUserIdByWs(h.sessions, ws)
    IN  Catch(IF userId = NoUser
              THEN Reply(h, ws, ErrorFrame("Not authenticated"))
              ELSE IF TrimIsEmpty(data.content)
              THEN Reply(h, ws, ErrorFrame("Empty message not allowed"))
              ELSE LET message == ConstructMessage(h, "TEXT", userId, data)
                       h1 == storeSave(ConsumeId(h, data), message)
                   IN  Await(h1, [pc |-> "handleTextMessage:save", message |-> message]),
              ws, "Failed to send message")

\* a TEXT handler that ends after the save, without the broadcast
handleTextMessageSavedOnly(h, ws, t) == Done(h)
\* a TEXT broadcast that does not exclude the sender
handleTextMessageSavedToAll(h, ws, t) == Done(broadcast(h, t.message, NoConn))
handleTextMessageSaved(h, ws, t) == Done(broadcast(h, t.message, ws))

handleMediaMessage(h, ws, data) ==
    LET userId == findUserIdByWs(h.sessions, ws)
    IN  Catch(IF userId = NoUser
              THEN Reply(h, ws, ErrorFrame("Not authenticated"))
              ELSE IF TrimIsEmpty(data.content)
              THEN Reply(h, ws, ErrorFrame("Empty media content not allowed"))
              ELSE LET message == ConstructMessage(h, data.type, userId, data)
                       h1 == storeSave(ConsumeId(h, data), message)
                   IN  Await(h1, [pc |-> "handleMediaMessage:save", message |-> message]),
              ws, "Failed to send media message")

\* a media broadcast that excludes the sender, as a TEXT broadcast does
handleMediaMessageSavedToOthers(h, ws, t) == Done(broadcast(h, t.message, ws))
handleMediaMessageSaved(h, ws, t) == Done(broadcast(h, t.message, NoConn))

\* a handleGetHistory that answers whoever asks
handleGetHistoryOpen(h, ws, data) ==
    LET limit == IF data.limit.t = "undefined" THEN DEFAULT_HISTORY_LIMIT ELSE data.limit.v
        msgs == getMessagesBefore(h.messages, data.lastMessageId.v, limit)
    IN  Reply(h, ws, HistoryResponse(msgs, Len(msgs) = limit))

\* a handleGetHistory that compares with the default limit
handleGetHistoryDefaultLimit(h, ws, data) ==
    LET userId == findUserIdByWs(h.sessions, ws)
        limit == IF data.limit.t = "undefined" THEN DEFAULT_HISTORY_LIMIT ELSE data.limit.v
        r == storeRead(h, data.lastMessageId.v, limit)
        msgs == r.messages
    IN  IF userId = NoUser
        THEN Reply(h, ws, ErrorFrame("Not authenticated"))
        ELSE Catch(IF r.threw THEN Throw(h)
                   ELSE Reply(h, ws, HistoryResponse(msgs, Len(msgs) = DEFAULT_HISTORY_LIMIT)),
                   ws, "Failed to retrieve message history")
\* the failing store rejects getMessagesBefore
handleGetHistory(h, ws, data) ==
    LET userId == findUserIdByWs(h.sessions, ws)
        limit == IF data.limit.t = "undefined" THEN DEFAULT_HISTORY_LIMIT ELSE data.limit.v
        r == storeRead(h, data.lastMessageId.v, limit)
        msgs == r.messages
    IN  IF userId = NoUser
        THEN Reply(h, ws, ErrorFrame("Not authenticated"))
        ELSE Catch(IF r.threw THEN Throw(h)
                   ELSE Reply(h, ws, HistoryResponse(msgs, Len(msgs) = limit)),
                   ws, "Failed to retrieve message history")

\* ----------------------------------------------------------- WebSocketServer
\* the try block of handleMessage, up to the handler's first await
dispatch(h, ws, data) ==
    IF data.kind = "bad" THEN Done(sendErrorResponse(h, ws, "Invalid JSON format"))
    ELSE LET validationError == validateMessage(data)
         IN  IF validationError # NoError
             THEN Done(sendErrorResponse(h, ws, validationError))
             ELSE IF data.type = "LOGIN" THEN handleLogin(h, ws, data)
             ELSE IF data.type = "TEXT" THEN handleTextMessage(h, ws, data)
             ELSE IF data.type \in MediaTypes THEN handleMediaMessage(h, ws, data)
             ELSE IF data.type = "GET_HISTORY" THEN handleGetHistory(h, ws, data)
             ELSE IF data.type = "SYSTEM"
             THEN Done(sendErrorResponse(h, ws, "SYSTEM messages can only be sent by server"))
             ELSE Done(sendErrorResponse(h, ws, "Unknown message type: " \o data.type))

\* a handleMessage that lets the error out
handleMessageUncaught(h, ws, data) == dispatch([h EXCEPT !.fails = data.fails], ws, data)
\* handleMessage up to the handler's first await: what the try block throws
\* is answered with an error response
handleMessage(h, ws, data) ==
    LET r == dispatch([h EXCEPT !.fails = data.fails], ws, data)
    IN  IF r.threw THEN Done(sendErrorResponse(r.h, ws, "Failed to process message"))
        ELSE r

\* the handler resumed after its await
resumeHandler(h, ws, t) ==
    IF t.pc = "handleLogin:save" THEN handleLoginSaved(h, ws, t)
    ELSE IF t.pc = "handleTextMessage:save" THEN handleTextMessageSaved(h, ws, t)
    ELSE handleMediaMessageSaved(h, ws, t)

\* a handleClose that leaves the session in the registry
handleCloseKeepingSession(h, ws) ==
    LET userId == findUserIdByWs(h.sessions, ws)
    IN  IF userId # NoUser
        THEN LET systemMessage == SystemMessage(uuid(h.nextId), userId \o " left the chat")
                 h1 == storeSave([h EXCEPT !.nextId = @ + 1], systemMessage)
             IN  Await(h1, [pc |-> "handleClose:save", message |-> systemMessage])
        ELSE Done(h)

\* handleClose up to `await saveMessage(systemMessage)`; cleanupConnection is
\* in the Close action
handleClose(h, ws) ==
    LET userId == findUserIdByWs(h.sessions, ws)
    IN  IF userId # NoUser
        THEN LET systemMessage == SystemMessage(uuid(h.nextId), userId \o " left the chat")
                 h1 == storeSave([h EXCEPT !.sessions = removeSession(@, userId),
                                           !.nextId = @ + 1], systemMessage)
             IN  Await(h1, [pc |-> "handleClose:save", message |-> systemMessage])
        ELSE Done(h)

\* a handleClose that the rejection of the store leaves without broadcasting
handleCloseSavedUnlessRejected(h, t) ==
    IF h.storage = "failing" THEN Done(h) ELSE Done(broadcast(h, t.message, NoConn))
\* the save has ended, or its rejection is caught: broadcast the notice
handleCloseSaved(h, t) == Done(broadcast(h, t.message, NoConn))

\* a processMessageQueue without the `isProcessing` guard
processMessageQueueDrainsUnguarded(hasQ, isProcessing) == hasQ
\* a processMessageQueue that always returns at its guards: nothing drains
processMessageQueueDrainsOnce(hasQ, isProcessing) == FALSE
\* processMessageQueue goes on to drain: the queue object exists and no drain
\* is marked as running
processMessageQueueDrains(hasQ, isProcessing) == hasQ /\ ~isProcessing

\* ------------------------------------------------------------------ the state
H == [rs |-> readyState, storage |-> storage, fails |-> 0, broken |-> broken,
      sessions |-> sessions,
      messages |-> messages, outbox |-> outbox, nextId |-> nextId]

Commit(h) ==
    /\ sessions' = h.sessions
    /\ messages' = h.messages
    /\ outbox' = h.outbox
    /\ nextId' = h.nextId

RemoveAt(seq, i) == SubSeq(seq, 1, i - 1) \o SubSeq(seq, i + 1, Len(seq))

\* queueInfo.queue.pop(): the newest payload first
pop(q) == [data |-> q[Len(q)], rest |-> SubSeq(q, 1, Len(q) - 1)]
\* queueInfo.queue.shift()
shift(q) == [data |-> Head(q), rest |-> Tail(q)]

\* One turn of the while loop of processMessageQueue on connection ws, whose
\* other drains in flight are `others`: shift, handleMessage up to its await.
\* What handleMessage throws leaves the loop through `finally`.
DrainTurn(ws, q, others) ==
    LET r == handleMessage(H, ws, shift(q).data)
    IN  /\ Commit(r.h)
        /\ queue' = [queue EXCEPT ![ws] = shift(q).rest]
        /\ IF r.threw
           THEN /\ tasks' = [tasks EXCEPT ![ws] = others]
                /\ processing' = [processing EXCEPT ![ws] = FALSE]
           ELSE IF r.wait # NoTask
           THEN /\ tasks' = [tasks EXCEPT ![ws] = Append(others, r.wait)]
                /\ processing' = [processing EXCEPT ![ws] = TRUE]
           ELSE IF shift(q).rest # << >>
           THEN /\ tasks' = [tasks EXCEPT ![ws] = Append(others, [pc |-> "loop"])]
                /\ processing' = [processing EXCEPT ![ws] = TRUE]
           ELSE /\ tasks' = [tasks EXCEPT ![ws] = others]
                /\ processing' = [processing EXCEPT ![ws] = FALSE]

\* ----------------------------------------------------------------- actions
\* wss.on('connection'): handleConnection.  Handles are taken in order, the
\* next one once the handles before it have sent something (a connection
\* that never sends changes nothing but itself).
Connect(ws) ==
    /\ readyState[ws] = NONE
    /\ \A c \in Conns : c < ws => arrived[c] # << >>
    /\ readyState' = [readyState EXCEPT ![ws] = OPEN]
    /\ hasQueue' = [hasQueue EXCEPT ![ws] = TRUE]
    /\ UNCHANGED <<queue, processing, tasks, closeTask, sessions, messages, outbox,
                   nextId, budget, arrived>>
    /\ UNCHANGED <<store, broken, client>>

\* ws.on('message'): enqueueMessage, and processMessageQueue up to its first await
Enqueue(ws, data) ==
    /\ readyState[ws] = OPEN
    /\ budget > 0
    /\ budget' = budget - 1
    /\ UNCHANGED <<readyState, hasQueue, closeTask>>
    /\ UNCHANGED <<store, broken, client>>
    /\ IF ~hasQueue[ws]
       THEN /\ UNCHANGED <<queue, processing, tasks, sessions, messages, outbox,
                           nextId, arrived>>
       ELSE /\ arrived' = [arrived EXCEPT ![ws] = Append(@, data)]
            /\ IF processMessageQueueDrains(hasQueue[ws], processing[ws])
               THEN /\ DrainTurn(ws, Append(queue[ws], data), tasks[ws])
               ELSE /\ queue' = [queue EXCEPT ![ws] = Append(@, data)]
                    /\ UNCHANGED <<processing, tasks, sessions, messages, outbox, nextId>>

\* the drain loop goes round: `await this.handleMessage` has returned and the
\* queue is examined again
Loop(ws, i) ==
    /\ i \in 1 .. Len(tasks[ws])
    /\ tasks[ws][i].pc = "loop"
    /\ UNCHANGED <<readyState, hasQueue, closeTask, budget, arrived>>
    /\ UNCHANGED <<store, broken, client>>
    /\ IF queue[ws] # << >>
       THEN /\ DrainTurn(ws, queue[ws], RemoveAt(tasks[ws], i))
       ELSE /\ tasks' = [tasks EXCEPT ![ws] = RemoveAt(@, i)]
            /\ processing' = [processing EXCEPT ![ws] = FALSE]
            /\ UNCHANGED <<queue, sessions, messages, outbox, nextId>>

\* the fs.writeFile of a handler's saveMessage has ended (or thrown: the
\* handler catches it): the handler goes on to its end, and the drain loop
\* examines the queue
Resume(ws, i) ==
    /\ i \in 1 .. Len(tasks[ws])
    /\ tasks[ws][i].pc # "loop"
    /\ LET t == tasks[ws][i]
           others == RemoveAt(tasks[ws], i)
           r == resumeHandler(H, ws, t)
       IN  /\ Commit(r.h)
           /\ IF r.threw
              THEN /\ tasks' = [tasks EXCEPT ![ws] = others]
                   /\ processing' = [processing EXCEPT ![ws] = FALSE]
              ELSE IF r.wait # NoTask
              THEN /\ tasks' = [tasks EXCEPT ![ws] = Append(others, r.wait)]
                   /\ UNCHANGED processing
              ELSE IF queue[ws] # << >>
              THEN /\ tasks' = [tasks EXCEPT ![ws] = Append(others, [pc |-> "loop"])]
                   /\ UNCHANGED processing
              ELSE /\ tasks' = [tasks EXCEPT ![ws] = others]
                   /\ processing' = [processing EXCEPT ![ws] = FALSE]
    /\ UNCHANGED <<readyState, hasQueue, queue, closeTask, budget, arrived>>
    /\ UNCHANGED <<store, broken, client>>

\* ws.on('close'): the transport has closed the connection; cleanupConnection
\* and handleClose up to its await
Close(ws) ==
    /\ readyState[ws] \in {OPEN, CLOSING}
    /\ readyState' = [readyState EXCEPT ![ws] = CLOSED]
    /\ hasQueue' = [hasQueue EXCEPT ![ws] = FALSE]
    /\ LET r == handleClose(H, ws)
       IN  /\ Commit(r.h)
           /\ closeTask' = [closeTask EXCEPT ![ws] = r.wait]
    /\ UNCHANGED <<queue, processing, tasks, budget, arrived>>
    /\ UNCHANGED <<store, broken, client>>

\* the saveMessage of handleClose has ended: broadcast the notice
CloseResume(ws) ==
    /\ closeTask[ws] # NoTask
    /\ Commit(handleCloseSaved(H, closeTask[ws]).h)
    /\ closeTask' = [closeTask EXCEPT ![ws] = NoTask]
    /\ UNCHANGED <<readyState, hasQueue, queue, processing, tasks, budget, arrived>>
    /\ UNCHANGED <<store, broken, client>>

\* ws.on('error'): cleanupConnection.  The transport has left OPEN, delivers
\* no more messages and will emit 'close'.
Error(ws) ==
    /\ readyState[ws] = OPEN
    /\ readyState' = [readyState EXCEPT ![ws] = CLOSING]
    /\ hasQueue' = [hasQueue EXCEPT ![ws] = FALSE]
    /\ UNCHANGED <<queue, processing, tasks, closeTask, sessions, messages, outbox,
                   nextId, budget, arrived>>
    /\ UNCHANGED <<store, broken, client>>

\* ------------------------------------------------------------ specifications
\* The callers of the store that the store specifications follow, and the
\* store as the server specifications see it: start() has initialized it, and
\* its file and its calls are not followed (a handler's call is the handler's
\* task at its await).
Callers == 1 .. MaxCalls
NoCall == [pc |-> "none"]
NoResult == [op |-> "none"]
NotFollowed == [kind |-> "not followed"]

Started(kind) ==
    /\ storage = kind
    /\ initialized = TRUE
    /\ file = NotFollowed
    /\ calls = [i \in Callers |-> NoCall]
    /\ saved = << >>
    /\ result = NoResult
    /\ rows = << >>

\* nothing is queued or in flight
\* no caller is paging
NotPaging == loaded = << >> /\ pageLimit = 0

\* new WebSocketManager(url): the field initializers
Constructed ==
    /\ sockets = << >>
    /\ current = NoSocket
    /\ reconnectAttempts = 0
    /\ shouldReconnect = TRUE
    /\ reconnectTimer = FALSE
    /\ lastCall = "none"

Idle ==
    /\ queue = [c \in Conns |-> << >>]
    /\ processing = [c \in Conns |-> FALSE]
    /\ tasks = [c \in Conns |-> << >>]
    /\ closeTask = [c \in Conns |-> NoTask]

\* The events of an environment: the clients, the payloads each may send, and
\* the clients whose connection the transport may end.
Events(clients, alphabet, closers) ==
    \/ \E ws \in clients : Connect(ws)
    \/ \E ws \in clients : \E data \in alphabet[ws] : Enqueue(ws, data)
    \/ \E ws \in clients, i \in 1 .. 2 : Loop(ws, i)
    \/ \E ws \in clients, i \in 1 .. 2 : Resume(ws, i)
    \/ \E ws \in closers : Close(ws)
    \/ \E ws \in closers : CloseResume(ws)
    \/ \E ws \in closers : Error(ws)

\* Spec: the server has started (the store is initialized) and no client has
\* connected; two clients send well-formed and ill-formed payloads.
Clients == {1, 2}
Payloads ==
    {Login("A"), Login("B"), Login(" "), Text("hi", 0), Text(" ", 0), Text("", 0),
     Media("IMAGE", "img"), GetHistory(JsUndefined, JsUndefined),
     Other("SYSTEM"), Other("PING"), BadPayload, NonObject, Other(""), Login("")}

Init ==
    /\ Idle
    /\ NotPaging
    /\ Constructed
    /\ Started("file")
    /\ readyState = [c \in Conns |-> NONE]
    /\ hasQueue = [c \in Conns |-> FALSE]
    /\ sessions = << >>
    /\ messages = << >>
    /\ outbox = [c \in Conns |-> << >>]
    /\ nextId = 0
    /\ arrived = [c \in Conns |-> << >>]
    /\ budget = MaxPayloads
    /\ broken = {}

Next == Events(Clients, [c \in Conns |-> Payloads], Clients)

Spec == Init /\ [][Next]_vars

\* A chat under way: connection 1 has logged in as A, then connection 2 as B,
\* each login handled to its end.
LoggedIn(h, ws, userId) ==
    LET r == handleLogin(h, ws, Login(userId))
    IN  handleLoginSaved(r.h, ws, r.wait).h

ChatFrom(kind, msgs) ==
    LoggedIn(LoggedIn([rs |-> [c \in Conns |-> IF c \in {1, 2} THEN OPEN ELSE NONE],
                       storage |-> kind, fails |-> 0, broken |-> {},
                       sessions |-> << >>, messages |-> msgs,
                       outbox |-> [c \in Conns |-> << >>], nextId |-> 0],
                      1, "A"),
             2, "B")

ChatOn(kind) == ChatFrom(kind, << >>)

Chat == ChatOn("file")

\* ... on a store of that kind that start() has loaded with msgs
EstablishedFrom(kind, msgs) ==
    /\ Idle
    /\ NotPaging
    /\ Constructed
    /\ Started(kind)
    /\ readyState = ChatFrom(kind, msgs).rs
    /\ hasQueue = [c \in Conns |-> c \in {1, 2}]
    /\ sessions = ChatFrom(kind, msgs).sessions
    /\ messages = ChatFrom(kind, msgs).messages
    /\ outbox = ChatFrom(kind, msgs).outbox
    /\ nextId = ChatFrom(kind, msgs).nextId
    /\ arrived = [c \in Conns |-> IF c = 1 THEN <<Login("A")>>
                                  ELSE IF c = 2 THEN <<Login("B")>> ELSE << >>]

EstablishedOn(kind) == EstablishedFrom(kind, << >>)

Established == EstablishedOn("file")

\* SpecChat: in that chat the three clients log in and send text and media;
\* the third client, which joins, may leave.
ChatPayloads ==
    {Login("A"), Login("C"), Text("hi", 0)} \cup {Media(type, "img") : type \in MediaTypes}

InitChat == Established /\ budget = MaxChat /\ broken = {}

NextChat == Events(Conns, [c \in Conns |-> ChatPayloads], {3})

SpecChat == InitChat /\ [][NextChat]_vars

\* SpecBurst: in that chat connection 1 sends a burst of TEXT messages while
\* connection 2 listens and a third client joins and leaves.
BurstPayloads ==
    [c \in Conns |-> IF c = 1 THEN {Text("hi", 0), Text("yo", 0)}
                     ELSE IF c = 3 THEN {Login("C")} ELSE {}]

InitBurst == Established /\ budget = MaxBurst /\ broken = {}

NextBurst == Events({1, 3}, BurstPayloads, {3})

SpecBurst == InitBurst /\ [][NextBurst]_vars

\* SpecLive: a shorter burst, and what waits is resumed: every store call
\* returns (Resume) and every `await this.handleMessage` goes on (Loop).
Drains == \E ws \in Conns, i \in 1 .. 2 : Loop(ws, i) \/ Resume(ws, i)

FairDrains == WF_vars(Drains)

InitLive == Established /\ budget = MaxLive /\ broken = {}

SpecLive == InitLive /\ [][NextBurst]_vars /\ FairDrains

\* SpecFail: the same chat on a store whose every call rejects: the clients
\* send text, ask for history and log in; the third client may leave.
FailPayloads == {Text("hi", 0), Login("C"), GetHistory(JsUndefined, JsUndefined)}

InitFail == EstablishedOn("failing") /\ budget = MaxFail /\ broken = {}

NextFail == Events(Conns, [c \in Conns |-> FailPayloads], {3})

SpecFail == InitFail /\ [][NextFail]_vars

\* SpecThrow: in that chat a third client connects and sends payloads, during
\* the handling of some of which ws.send throws once or twice; it may leave.
ThrowPayloads ==
    {Login("C"), Text("hi", 0), Failing(Login(" "), 1), Failing(Login(" "), 2),
     Failing(GetHistory(JsUndefined, JsUndefined), 1), Failing(Text("hi", 0), 2)}

InitThrow == Established /\ budget = MaxThrow /\ broken = {}

NextThrow == Events({3}, [c \in Conns |-> ThrowPayloads], {3})

SpecThrow == InitThrow /\ [][NextThrow]_vars

\* SpecHistory: the chat on a store that held the messages of an earlier run
\* when the server started; connection 1 asks for history, with and without
\* lastMessageId and limit, and sends text; a third client joins and leaves.
Earlier(n) == [i \in 1 .. n |-> ChatMessage("TEXT", OldIds + i, "B", "old")]
StoreSizes == {0, 1, DEFAULT_HISTORY_LIMIT - 1, DEFAULT_HISTORY_LIMIT}
HistoryIds == {JsUndefined, JsString(1), JsString(OldIds + 2), JsString(OldIds)}
HistoryLimits == {JsUndefined} \cup {JsNumber(n) : n \in 0 .. MaxLimit}
HistoryPayloads ==
    [c \in Conns |->
        IF c = 1 THEN {GetHistory(id, limit) : id \in HistoryIds, limit \in HistoryLimits}
                      \cup {Text("hi", 0)}
        ELSE IF c = 3 THEN {Login("C")} ELSE {}]

InitHistory ==
    /\ \E n \in StoreSizes : EstablishedFrom("file", Earlier(n))
    /\ budget = MaxHistory
    /\ broken = {}

NextHistory == Events({1, 3}, HistoryPayloads, {3})

SpecHistory == InitHistory /\ [][NextHistory]_vars

\* SpecBroken: in that chat ws.send throws on some of the connections 2 and
\* 3; connection 1 sends text and media, a third client joins and leaves.
BrokenPayloads ==
    [c \in Conns |-> IF c = 1 THEN {Text("hi", 0), Media("IMAGE", "img")}
                     ELSE IF c = 3 THEN {Login("C")} ELSE {}]

InitBroken == Established /\ budget = MaxBroken /\ broken \in SUBSET {2, 3}

NextBroken == Events({1, 3}, BrokenPayloads, {3})

SpecBroken == InitBroken /\ [][NextBroken]_vars

\* SpecUnreadable: in that chat, on the unreadable store, the clients ask for
\* history and send text; a third client joins, asks and leaves.
UnreadablePayloads ==
    [c \in Conns |->
        IF c = 1 THEN {GetHistory(JsUndefined, JsUndefined),
                       GetHistory(JsString(1), JsNumber(2)), Text("hi", 0)}
        ELSE IF c = 3 THEN {Login("C"), GetHistory(JsUndefined, JsNumber(1))} ELSE {}]

InitUnreadable == EstablishedOn("unreadable") /\ budget = MaxUnreadable /\ broken = {}

NextUnreadable == Events({1, 3}, UnreadablePayloads, {3})

SpecUnreadable == InitUnreadable /\ [][NextUnreadable]_vars

\* SpecSender: in that chat connection 1 (A) sends text and media, with a
\* senderId of its own choice or without one, and logs in once more as C;
\* a third client joins as C and leaves.
SenderPayloads ==
    [c \in Conns |->
        IF c = 1 THEN {Text("hi", 0), From(Text("hi", 0), "B"),
                       From(Media("IMAGE", "img"), "B"), Login("C")}
        ELSE IF c = 3 THEN {Login("C")} ELSE {}]

InitSender == Established /\ budget = MaxSender /\ broken = {}

NextSender == Events({1, 3}, SenderPayloads, {3})

SpecSender == InitSender /\ [][NextSender]_vars

\* SpecRelogin: in that chat a third client logs in, as C or as A, and
\* leaves; connection 1 logs in again, as A or as C, and connection 2 sends
\* text.
ReloginPayloads ==
    [c \in Conns |-> IF c = 2 THEN {Text("hi", 0)} ELSE {Login("A"), Login("C")}]

InitRelogin == Established /\ budget = MaxRelogin /\ broken = {}

NextRelogin == Events(Conns, ReloginPayloads, {3})

SpecRelogin == InitRelogin /\ [][NextRelogin]_vars

\* SpecIds: in that chat the clients send text and media with an id of their
\* own (data.id) or without one; a third client joins and leaves.
ClientIds == {7}
IdPayloads ==
    [c \in Conns |->
        IF c = 1 THEN {Text("hi", 0)} \cup {Text("hi", id) : id \in ClientIds}
        ELSE IF c = 2
        THEN {Text("yo", id) : id \in ClientIds}
                 \cup {[Media("IMAGE", "img") EXCEPT !.id = id] : id \in ClientIds}
        ELSE {Login("C")}]

InitIds == Established /\ budget = MaxIds /\ broken = {}

NextIds == Events(Conns, IdPayloads, {3})

SpecIds == InitIds /\ [][NextIds]_vars

\* SpecLogin: the chat on a store that started empty, with one message or
\* with as many as the login history takes, or on the failing store, and the
\* server that has started on an empty store and to which the clients have
\* connected, none having sent anything; a third client logs in
\* (once with a LOGIN_SUCCESS whose send throws) and leaves, connection 1
\* sends text.
LoginStores ==
    {[kind |-> "file", size |-> n] : n \in {0, 1, LOGIN_HISTORY_LIMIT - 1}}
        \cup {[kind |-> "failing", size |-> 0]}
LoginPayloads ==
    [c \in Conns |-> IF c = 1 THEN {Text("hi", 0)}
                     ELSE IF c = 3 THEN {Login("C"), Failing(Login("C"), 1)} ELSE {}]

Connected ==
    /\ Idle
    /\ NotPaging
    /\ Constructed
    /\ Started("file")
    /\ readyState = [c \in Conns |-> OPEN]
    /\ hasQueue = [c \in Conns |-> TRUE]
    /\ sessions = << >>
    /\ messages = << >>
    /\ outbox = [c \in Conns |-> << >>]
    /\ nextId = 0
    /\ arrived = [c \in Conns |-> << >>]

InitLogin ==
    /\ \/ \E st \in LoginStores : EstablishedFrom(st.kind, Earlier(st.size))
       \/ Connected
    /\ budget = MaxLogin
    /\ broken = {}

NextLogin == Events({1, 3}, LoginPayloads, {3})

SpecLogin == InitLogin /\ [][NextLogin]_vars

\* --------------------------------------------------------- StorageService
\* The file at storagePath: it is missing, it holds a JSON text, or it holds
\* what a write that failed has left (no JSON).  JSON.stringify writes each
\* message as its values in key order; JSON.parse builds the objects again.
Missing == [kind |-> "missing"]
Torn == [kind |-> "torn"]
stringify(msgs) ==
    [kind |-> "json",
     text |-> [i \in 1 .. Len(msgs) |->
                 <<msgs[i].id, msgs[i].type, msgs[i].senderId, msgs[i].content>>]]
parse(text) ==
    [i \in 1 .. Len(text) |-> ChatMessage(text[i][2], text[i][1], text[i][3], text[i][4])]

\* initialize: `this.messages = JSON.parse(data)`, or [] when readFile or
\* JSON.parse throws
loadMessages(f) == IF f.kind = "json" THEN parse(f.text) ELSE << >>

InFlight == {i \in Callers : calls[i] # NoCall}

\* saveMessage from `this.messages.push(message)` to `await fs.writeFile`: the
\* text to write is made from the list as it is now
pushAndWrite(i, msgs, message) ==
    /\ messages' = saveMessage(msgs, message)
    /\ saved' = Append(saved, [message |-> message, status |-> "pending"])
    /\ calls' = [calls EXCEPT ![i] = [pc |-> "writeFile",
                                      data |-> stringify(saveMessage(msgs, message)),
                                      k |-> Len(saved) + 1]]

\* saveMessage(message) is called by caller i, while fewer than `width` calls
\* are in flight: up to its first await
CallSave(i, message, width) ==
    /\ calls[i] = NoCall
    /\ Cardinality(InFlight) < width
    /\ Len(saved) + Cardinality({j \in InFlight : calls[j].pc = "initialize"}) < MaxSaves
    /\ IF initialized
       THEN /\ pushAndWrite(i, messages, message)
            /\ UNCHANGED <<initialized, file>>
       ELSE /\ calls' = [calls EXCEPT ![i] = [pc |-> "initialize", op |-> "saveMessage",
                                              message |-> message]]
            /\ UNCHANGED <<messages, initialized, file, saved>>
    /\ UNCHANGED <<storage, result>>
    /\ UNCHANGED <<server, rows, client>>

\* initialize() is called by caller i: up to its awaits (mkdir, readFile)
CallInitialize(i, width) ==
    /\ calls[i] = NoCall
    /\ Cardinality(InFlight) < width
    /\ calls' = [calls EXCEPT ![i] = [pc |-> "initialize", op |-> "initialize"]]
    /\ UNCHANGED <<messages, storage, initialized, file, saved, result>>
    /\ UNCHANGED <<server, rows, client>>

\* the readFile of an initialize() has ended: the list is replaced by what the
\* file holds, and a saveMessage that called it goes on to push and write
InitializeDone(i) ==
    /\ calls[i] # NoCall /\ calls[i].pc = "initialize"
    /\ initialized' = TRUE
    /\ IF calls[i].op = "saveMessage"
       THEN pushAndWrite(i, loadMessages(file), calls[i].message)
       ELSE /\ messages' = loadMessages(file)
            /\ calls' = [calls EXCEPT ![i] = NoCall]
            /\ UNCHANGED saved
    /\ UNCHANGED <<storage, file, result>>
    /\ UNCHANGED <<server, rows, client>>

\* a saveMessage that takes its message off the list when its write fails
WriteDoneRollingBack(i, outcome) ==
    /\ calls[i] # NoCall /\ calls[i].pc = "writeFile"
    /\ file' = IF outcome = "written" THEN calls[i].data
               ELSE IF outcome = "torn" THEN Torn ELSE file
    /\ saved' = [saved EXCEPT ![calls[i].k].status =
                                  IF outcome = "written" THEN "ok" ELSE "failed"]
    /\ calls' = [calls EXCEPT ![i] = NoCall]
    /\ messages' = IF outcome = "written" THEN messages
                   ELSE SubSeq(messages, 1, Len(messages) - 1)
    /\ UNCHANGED <<storage, initialized, result>>
    /\ UNCHANGED <<server, rows, client>>

\* the fs.writeFile of a saveMessage has ended: it has written its text, or it
\* has failed and left the file as it was or without its JSON text
WriteDone(i, outcome) ==
    /\ calls[i] # NoCall /\ calls[i].pc = "writeFile"
    /\ file' = IF outcome = "written" THEN calls[i].data
               ELSE IF outcome = "torn" THEN Torn ELSE file
    /\ saved' = [saved EXCEPT ![calls[i].k].status =
                                  IF outcome = "written" THEN "ok" ELSE "failed"]
    /\ calls' = [calls EXCEPT ![i] = NoCall]
    /\ UNCHANGED <<messages, storage, initialized, result>>
    /\ UNCHANGED <<server, rows, client>>

\* getMessagesBefore(messageId, limit) on the initialized store; messageId 0
\* is an absent one
Query(messageId, limit) ==
    /\ initialized
    /\ result' = [op |-> "getMessagesBefore", messageId |-> messageId, limit |-> limit,
                  of |-> messages,
                  messages |-> getMessagesBefore(messages, messageId, limit)]
    /\ UNCHANGED <<messages, storage, initialized, file, calls, saved>>
    /\ UNCHANGED <<server, rows, client>>

\* getAllMessages() on the initialized store
GetAll ==
    /\ initialized
    /\ result' = [op |-> "getAllMessages", of |-> messages,
                  messages |-> getAllMessages(messages)]
    /\ UNCHANGED <<messages, storage, initialized, file, calls, saved>>
    /\ UNCHANGED <<server, rows, client>>

\* no client has connected
NoClients ==
    /\ Idle
    /\ NotPaging
    /\ Constructed
    /\ readyState = [c \in Conns |-> NONE]
    /\ hasQueue = [c \in Conns |-> FALSE]
    /\ sessions = << >>
    /\ outbox = [c \in Conns |-> << >>]
    /\ nextId = 0
    /\ arrived = [c \in Conns |-> << >>]
    /\ budget = 0
    /\ broken = {}

\* SpecSaved: a store that has been initialized and cleared; messages are
\* saved one after the other, each call awaited, and the store is queried.
\* The ids are the caller's, and two messages may carry the same one.
SavedMessages == {ChatMessage("TEXT", id, "A", content) : id \in {1, 2}, content \in {"x", "y"}}
QueryIds == {0, 1, 2, 3}

InitSaved ==
    /\ NoClients
    /\ storage = "file"
    /\ initialized = TRUE
    /\ messages = << >>
    /\ file = stringify(<< >>)
    /\ calls = [i \in Callers |-> NoCall]
    /\ saved = << >>
    /\ result = NoResult
    /\ rows = << >>

NextSaved ==
    \/ \E message \in SavedMessages : CallSave(1, message, 1)
    \/ WriteDone(1, "written")
    \/ \E messageId \in QueryIds, limit \in 0 .. MaxLimit : Query(messageId, limit)
    \/ GetAll

SpecSaved == InitSaved /\ [][NextSaved]_vars

\* SpecStore: a store just constructed, on a file left by an earlier run (or
\* none); saveMessage and initialize are called, and the calls may overlap.
Old == ChatMessage("TEXT", 3, "B", "old")
StoreMessages == {ChatMessage("TEXT", 1, "A", "x"), ChatMessage("TEXT", 2, "A", "y")}

InitStore ==
    /\ NoClients
    /\ storage = "file"
    /\ initialized = FALSE
    /\ messages = << >>
    /\ file \in {Missing, stringify(<< >>), stringify(<<Old>>)}
    /\ calls = [i \in Callers |-> NoCall]
    /\ saved = << >>
    /\ result = NoResult
    /\ rows = << >>

NextStore ==
    \/ \E i \in Callers, message \in StoreMessages : CallSave(i, message, MaxCalls)
    \/ \E i \in Callers : CallInitialize(i, MaxCalls)
    \/ \E i \in Callers : InitializeDone(i)
    \/ \E i \in Callers, outcome \in {"written", "failed", "torn"} : WriteDone(i, outcome)

SpecStore == InitStore /\ [][NextStore]_vars

\* SpecWrite: a store that has been initialized and cleared; messages are
\* saved, the calls may overlap and their writes may fail, and the store is
\* queried.
WriteOutcomes == {"written", "failed", "torn"}

InitWrite == InitSaved

NextWrite ==
    \/ \E i \in Callers, message \in StoreMessages : CallSave(i, message, MaxCalls)
    \/ \E i \in Callers, outcome \in WriteOutcomes : WriteDone(i, outcome)
    \/ \E limit \in 1 .. MaxLimit : Query(0, limit)
    \/ GetAll

SpecWrite == InitWrite /\ [][NextWrite]_vars

\* SpecPaging: a caller pages backwards through the initialized store: the
\* most recent page first, then the page before the oldest message of the
\* page before, until a page is empty; messages with fresh ids are saved in
\* between.
PagedIds == 1 .. MaxPaged
Ids(msgs) == {msgs[i].id : i \in 1 .. Len(msgs)}
LastPage == loaded[Len(loaded)].messages

\* getMessagesBefore(absent, limit): the first call of the caller
LoadLatest(limit) ==
    /\ initialized
    /\ loaded = << >>
    /\ pageLimit' = limit
    /\ loaded' = <<[of |-> messages, messages |-> getMessagesBefore(messages, 0, limit)]>>
    /\ UNCHANGED <<messages, server, store, manager>>

\* getMessagesBefore(id of the oldest message of the previous page, limit)
LoadOlder ==
    /\ initialized
    /\ loaded # << >> /\ LastPage # << >>
    /\ loaded' = Append(loaded,
                        [of |-> messages,
                         messages |-> getMessagesBefore(messages, LastPage[1].id, pageLimit)])
    /\ UNCHANGED <<messages, server, store, pageLimit, manager>>

InitPaging == InitSaved

NextPaging ==
    \/ \E id \in PagedIds \ Ids(messages) : CallSave(1, ChatMessage("TEXT", id, "A", "x"), 1)
    \/ WriteDone(1, "written")
    \/ \E limit \in 1 .. MaxLimit : LoadLatest(limit)
    \/ LoadOlder

SpecPaging == InitPaging /\ [][NextPaging]_vars

\* ------------------------------------------------------- WebSocketManager
\* The manager works on m = [sockets, ws, reconnectAttempts, shouldReconnect,
\* reconnectTimer]; the delay of the timer is left out.
M == [sockets |-> sockets, ws |-> current, reconnectAttempts |-> reconnectAttempts,
      shouldReconnect |-> shouldReconnect, reconnectTimer |-> reconnectTimer]

scheduleReconnect(m) ==
    [m EXCEPT !.reconnectAttempts = @ + 1, !.reconnectTimer = TRUE]

\* what onclose and the catch of connect() do after the callback
reconnectIfEnabled(m) ==
    IF m.shouldReconnect /\ m.reconnectAttempts < maxReconnectAttempts
    THEN scheduleReconnect(m) ELSE m

\* connect(): `new WebSocket(url)` returns a socket that is CONNECTING, or it
\* throws
connect(m, throws) ==
    IF m.ws # NoSocket /\ m.sockets[m.ws] \in {CONNECTING, OPEN} THEN m
    ELSE IF throws THEN reconnectIfEnabled(m)
    ELSE [m EXCEPT !.sockets = Append(@, CONNECTING), !.ws = Len(m.sockets) + 1]

\* WebSocket.close(): a socket that is not yet closed starts closing
close(state) == IF state \in {CONNECTING, OPEN} THEN CLOSING ELSE state

\* disconnect(): no reconnection from now on, the timer is cleared and the
\* socket closed
disconnect(m) ==
    [m EXCEPT !.shouldReconnect = FALSE,
              !.reconnectTimer = FALSE,
              !.sockets = IF m.ws = NoSocket THEN @ ELSE [@ EXCEPT ![m.ws] = close(@)],
              !.ws = NoSocket]

Becomes(m) ==
    /\ sockets' = m.sockets
    /\ current' = m.ws
    /\ reconnectAttempts' = m.reconnectAttempts
    /\ shouldReconnect' = m.shouldReconnect
    /\ reconnectTimer' = m.reconnectTimer

ServerUnchanged == UNCHANGED <<messages, server, store, loaded, pageLimit>>

\* the application calls connect()
ManagerConnect(throws) ==
    /\ Len(sockets) < MaxSockets
    /\ Becomes(connect(M, throws))
    /\ lastCall' = "connect"
    /\ ServerUnchanged

\* the application calls disconnect()
ManagerDisconnect ==
    /\ Becomes(disconnect(M))
    /\ lastCall' = "disconnect"
    /\ ServerUnchanged

\* ws.onopen of socket k
SocketOpens(k) ==
    /\ sockets[k] = CONNECTING
    /\ Becomes([M EXCEPT !.sockets[k] = OPEN, !.reconnectAttempts = 0])
    /\ UNCHANGED lastCall
    /\ ServerUnchanged

\* ws.onclose of socket k: the connection is lost, or could not be made
SocketCloses(k) ==
    /\ sockets[k] \in {CONNECTING, OPEN}
    /\ Becomes(reconnectIfEnabled([M EXCEPT !.sockets[k] = CLOSED]))
    /\ UNCHANGED lastCall
    /\ ServerUnchanged

\* ws.onclose of socket k after its close() was called
SocketClosed(k) ==
    /\ sockets[k] = CLOSING
    /\ Becomes(reconnectIfEnabled([M EXCEPT !.sockets[k] = CLOSED]))
    /\ UNCHANGED lastCall
    /\ ServerUnchanged

\* the timeout of scheduleReconnect fires: connect()
TimerFires(throws) ==
    /\ reconnectTimer
    /\ Len(sockets) < MaxSockets
    /\ Becomes(connect([M EXCEPT !.reconnectTimer = FALSE], throws))
    /\ UNCHANGED lastCall
    /\ ServerUnchanged

\* SpecManager: a manager just constructed; the application calls connect()
\* and disconnect() in any order, and its sockets open and close.
InitManager == NoClients /\ Started("file") /\ messages = << >>

NextManager ==
    \/ \E throws \in BOOLEAN : ManagerConnect(throws)
    \/ ManagerDisconnect
    \/ \E k \in 1 .. Len(sockets) : SocketOpens(k)
    \/ \E k \in 1 .. Len(sockets) : SocketCloses(k)
    \/ \E k \in 1 .. Len(sockets) : SocketClosed(k)
    \/ \E throws \in BOOLEAN : TimerFires(throws)

SpecManager == InitManager /\ [][NextManager]_vars

\* --------------------------------------------------- SupabaseStorageService
\* The table `messages` of schema.sql: id is its primary key, sender_id may be
\* null.  A message carries its timestamp here.
Null == "null"
Stamped(message, timestamp) ==
    IF "senderId" \in DOMAIN message
    THEN [id |-> message.id, type |-> message.type, senderId |-> message.senderId,
          content |-> message.content, timestamp |-> timestamp]
    ELSE [id |-> message.id, type |-> message.type, content |-> message.content,
          timestamp |-> timestamp]

\* saveMessage: insert({id, type, sender_id: message.senderId || null, content,
\* timestamp}); the insert of an id the table holds is an error, and the call
\* rejects
SupabaseSaveMessage(table, message) ==
    IF \E i \in 1 .. Len(table) : table[i].id = message.id
    THEN table
    ELSE Append(table,
                [id |-> message.id, type |-> message.type,
                 sender_id |-> IF "senderId" \in DOMAIN message /\ message.senderId # ""
                               THEN message.senderId ELSE Null,
                 content |-> message.content, timestamp |-> message.timestamp])

formatMessages(records) ==
    [i \in 1 .. Len(records) |->
        [id |-> records[i].id, type |-> records[i].type, senderId |-> records[i].sender_id,
         content |-> records[i].content, timestamp |-> records[i].timestamp]]

\* order('timestamp'): the orders the database may return the records in;
\* that of records with the same timestamp is not determined
Ordered(records) ==
    {[i \in 1 .. Len(records) |-> records[p[i]]] :
        p \in {q \in Permutations(1 .. Len(records)) :
                 \A i, j \in 1 .. Len(records) :
                    i < j => records[q[i]].timestamp <= records[q[j]].timestamp}}

\* getAllMessages: select('*').order('timestamp', {ascending: true}); what it
\* may return
SupabaseGetAllMessages(table) == {formatMessages(o) : o \in Ordered(table)}

\* getMessagesBefore: the `limit` last of the records with a timestamp below
\* that of the message, or of all records when there is no such message
\* (descending order, limit, reversed); what it may return
SupabaseGetMessagesBefore(table, messageId, limit) ==
    LET target == {i \in 1 .. Len(table) : table[i].id = messageId}
        LessThan(r) == \A i \in target : r.timestamp < table[i].timestamp
        found == IF target = {} THEN table ELSE SelectSeq(table, LessThan)
    IN  {formatMessages(slice(o, 0 - limit)) : o \in Ordered(found)}

\* saveMessage(message) on both stores, each call awaited
SaveBoth(message) ==
    /\ initialized
    /\ Len(messages) < MaxRows
    /\ messages' = saveMessage(messages, message)
    /\ rows' = SupabaseSaveMessage(rows, message)
    /\ UNCHANGED <<storage, initialized, file, calls, saved, result>>
    /\ UNCHANGED <<server, client>>

\* getMessagesBefore(messageId, limit) on both stores
QueryBoth(messageId, limit) ==
    /\ initialized
    /\ \E table \in SupabaseGetMessagesBefore(rows, messageId, limit) :
          result' = [op |-> "both:getMessagesBefore", messageId |-> messageId,
                     limit |-> limit,
                     messages |-> getMessagesBefore(messages, messageId, limit),
                     table |-> table]
    /\ UNCHANGED <<messages, storage, initialized, file, calls, saved, rows>>
    /\ UNCHANGED <<server, client>>

\* getAllMessages() on both stores
GetAllBoth ==
    /\ initialized
    /\ \E table \in SupabaseGetAllMessages(rows) :
          result' = [op |-> "both:getAllMessages", messages |-> getAllMessages(messages),
                     table |-> table]
    /\ UNCHANGED <<messages, storage, initialized, file, calls, saved, rows>>
    /\ UNCHANGED <<server, client>>

\* SpecBackends: the two stores, initialized and empty, are given the same
\* messages: text of A and notices (no senderId), the k-th with id k and with
\* a timestamp of the caller's.
BackendMessages(id) ==
    {Stamped(message, timestamp) :
        message \in {ChatMessage("TEXT", id, "A", "x"), SystemMessage(id, "A joined the chat")},
        timestamp \in 1 .. MaxStamp}

InitBackends ==
    /\ NoClients
    /\ Started("file")
    /\ messages = << >>

NextBackends ==
    \/ \E message \in BackendMessages(Len(messages) + 1) : SaveBoth(message)
    \/ \E messageId \in 0 .. MaxRows, limit \in 1 .. MaxLimit : QueryBoth(messageId, limit)
    \/ GetAllBoth

SpecBackends == InitBackends /\ [][NextBackends]_vars

\* ----------------------------------------------------------------- properties
\* Steps are recognised from the states they join.
\* handleMessage(ws, data) begins in this step: the payload arrives at an idle
\* queue, or the drain loop shifts it from the queue
HandleStep(ws, data) ==
    \/ /\ hasQueue[ws] /\ ~processing[ws]
       /\ arrived'[ws] = Append(arrived[ws], data)
    \/ /\ Len(tasks[ws]) = 1 /\ tasks[ws][1].pc = "loop"
       /\ tasks'[ws] # tasks[ws]
       /\ queue[ws] # << >> /\ Head(queue[ws]) = data

\* the handler of ws waiting at `pc` goes on to its end in this step
ResumeStep(ws, pc) ==
    /\ Len(tasks[ws]) = 1 /\ tasks[ws][1].pc = pc
    /\ tasks'[ws] # tasks[ws]

\* the handler that begins in this step on ws stops at its await, as `task`
Awaits(ws, task) == tasks'[ws] = <<task>>

\* the handler that begins in this step on ws runs to its end
Completes(ws) == \A i \in 1 .. Len(tasks'[ws]) : tasks'[ws][i].pc = "loop"

SessionsOn(c) == {i \in 1 .. Len(sessions) : sessions[i].ws = c}
Registered(c) == SessionsOn(c) # {}
Copies(m, n) == [i \in 1 .. n |-> m]
Frames(c, type) == SelectSeq(outbox[c], LAMBDA f : f.type = type)
Received(c, fs) == outbox'[c] = outbox[c] \o fs
OthersUnchanged(ws) == \A c \in Conns \ {ws} : outbox'[c] = outbox[c]

\* the registered sessions are on pairwise distinct, open connections
DistinctOpen ==
    \A i, j \in 1 .. Len(sessions) :
        /\ readyState[sessions[i].ws] = OPEN
        /\ i # j => sessions[i].ws # sessions[j].ws

ValidData(data, types) ==
    data.kind = "json" /\ data.type \in types /\ validateMessage(data) = NoError

\* C1 (broadcast exclusion).  A TEXT payload with content from a bound sender
\* S becomes a TEXT message whose senderId is S's userId; and when that
\* message is broadcast to at least two sessions registered on distinct open
\* connections, S's connection receives no copy and every other registered
\* connection receives exactly one copy.
C1_TextStart ==
    \A s \in Conns : \A data \in ChatPayloads :
        (/\ HandleStep(s, data) /\ ValidData(data, {"TEXT"})
         /\ ~TrimIsEmpty(data.content)
         /\ findUserIdByWs(sessions, s) # NoUser)
        => \E m \in {ChatMessage("TEXT", uuid(nextId), findUserIdByWs(sessions, s),
                                 data.content)} :
               /\ Awaits(s, [pc |-> "handleTextMessage:save", message |-> m])
               /\ outbox' = outbox

C1_TextBroadcast ==
    \A s \in Conns :
        (ResumeStep(s, "handleTextMessage:save") /\ DistinctOpen /\ Len(sessions) >= 2)
        => /\ tasks[s][1].message.type = "TEXT"
           /\ \A c \in Conns :
                Received(c, IF c # s /\ Registered(c)
                            THEN <<tasks[s][1].message>> ELSE << >>)

C1_BroadcastExclusion == [][C1_TextStart /\ C1_TextBroadcast]_vars

\* C1 witness: of three sessions on distinct open connections, connection 1
\* (A) has sent a TEXT: connections 2 and 3 hold one copy each, from A, and
\* connection 1 holds none
C1_Witness ==
    /\ Len(sessions) = 3 /\ DistinctOpen
    /\ Frames(1, "TEXT") = << >>
    /\ Len(Frames(2, "TEXT")) = 1 /\ Frames(2, "TEXT")[1].senderId = "A"
    /\ Frames(3, "TEXT") = Frames(2, "TEXT")

\* C2 (media inclusion).  An IMAGE, VIDEO or AUDIO payload with non-empty
\* content from a bound sender S becomes a message of that type from S; and
\* when it is broadcast, every registered open connection receives it, S's
\* own connection included (one copy for each session of the connection),
\* and no other connection does.
C2_MediaStart ==
    \A s \in Conns : \A data \in ChatPayloads :
        (/\ HandleStep(s, data) /\ ValidData(data, MediaTypes)
         /\ ~TrimIsEmpty(data.content)
         /\ findUserIdByWs(sessions, s) # NoUser)
        => \E m \in {ChatMessage(data.type, uuid(nextId), findUserIdByWs(sessions, s),
                                 data.content)} :
               /\ Awaits(s, [pc |-> "handleMediaMessage:save", message |-> m])
               /\ outbox' = outbox

C2_MediaBroadcast ==
    \A s \in Conns :
        ResumeStep(s, "handleMediaMessage:save")
        => /\ tasks[s][1].message.type \in MediaTypes
           /\ \A c \in Conns :
                Received(c, IF readyState[c] = OPEN
                            THEN Copies(tasks[s][1].message, Cardinality(SessionsOn(c)))
                            ELSE << >>)

C2_MediaInclusion == [][C2_MediaStart /\ C2_MediaBroadcast]_vars

\* C2 witness: connection 1 (A) has sent a VIDEO and holds its own copy, as
\* does connection 2
C2_Witness ==
    /\ DistinctOpen
    /\ Len(Frames(1, "VIDEO")) = 1 /\ Frames(1, "VIDEO")[1].senderId = "A"
    /\ findUserIdByWs(sessions, 1) = "A"
    /\ Frames(2, "VIDEO") = Frames(1, "VIDEO")

\* C3 (order preservation under burst).  Connection 1 (A) sends TEXT payloads
\* in a burst while connection 2 (B) stays registered and open: at every
\* moment the TEXT broadcasts connection 2 has received are, in order, the
\* first of the TEXT payloads connection 1 has sent, and once connection 1
\* has nothing queued or in flight they are exactly all N of them.
Texts(payloads) == SelectSeq(payloads, LAMBDA d : d.kind = "json" /\ d.type = "TEXT")

C3_BurstOrder ==
    LET got == Frames(2, "TEXT")
        sent == Texts(arrived[1])
    IN  /\ Len(got) <= Len(sent)
        /\ \A i \in 1 .. Len(got) :
             /\ got[i].content = sent[i].content /\ got[i].senderId = "A"
             /\ \A j \in 1 .. Len(got) : i < j => got[i].id < got[j].id
        /\ (~processing[1] /\ queue[1] = << >>) => Len(got) = Len(sent)

\* C3 witness: a burst of three: the first TEXT has reached connection 2, the
\* second is at its store write and the third waits in the queue
C3_Witness ==
    /\ Len(Frames(2, "TEXT")) = 1 /\ Frames(2, "TEXT")[1].content = "hi"
    /\ Len(tasks[1]) = 1 /\ tasks[1][1].pc = "handleTextMessage:save"
    /\ tasks[1][1].message.content = "yo"
    /\ queue[1] = <<Text("hi", 0)>>

\* C4 (at most one drain loop per connection).  A connection has at most one
\* drain, so at most one payload being handled, and it is the one marked by
\* isProcessing; a payload that arrives while the drain runs is only appended
\* to the queue: it starts no drain and no handler.
C4_OneDrain ==
    \A c \in Conns :
        /\ Len(tasks[c]) <= 1
        /\ processing[c] <=> tasks[c] # << >>

C4_EnqueueDuringDrain ==
    \A c \in Conns :
        (processing[c] /\ arrived'[c] # arrived[c])
        => /\ queue'[c] = Append(queue[c], arrived'[c][Len(arrived'[c])])
           /\ tasks' = tasks /\ processing' = processing
           /\ outbox' = outbox /\ messages' = messages /\ sessions' = sessions

C4_SingleDrainLoop == [](C4_OneDrain) /\ [][C4_EnqueueDuringDrain]_vars

\* C4 witness: two payloads have arrived on connection 1 while its drain is
\* at the store write of a third
C4_Witness ==
    /\ processing[1] /\ Len(queue[1]) = 2
    /\ Len(tasks[1]) = 1 /\ tasks[1][1].pc = "handleTextMessage:save"

\* C5 (join notice).  A LOGIN of a userId that is not registered, on a
\* connection that is not bound, adds the session to the registry and leaves
\* the sessions registered before it in place; it sends no SYSTEM message
\* until its notice is stored, and then broadcasts that one notice, which
\* names the userId: one copy to every session on an open connection other
\* than the logging-in connection, none to the logging-in connection.
Notices(box) == SelectSeq(box, LAMBDA f : f.type = "SYSTEM")

C5_LoginStart ==
    \A ws \in Conns : \A data \in ChatPayloads :
        (/\ HandleStep(ws, data) /\ ValidData(data, {"LOGIN"})
         /\ ~TrimIsEmpty(data.userId)
         /\ \A i \in 1 .. Len(sessions) : sessions[i].userId # data.userId
         /\ ~Registered(ws))
        => /\ sessions' = Append(sessions, [userId |-> data.userId, ws |-> ws])
           /\ Awaits(ws, [pc |-> "handleLogin:save",
                          message |-> SystemMessage(uuid(nextId),
                                                    data.userId \o " joined the chat")])
           /\ OthersUnchanged(ws)
           /\ Notices(outbox'[ws]) = Notices(outbox[ws])

C5_JoinBroadcast ==
    \A ws \in Conns :
        ResumeStep(ws, "handleLogin:save")
        => /\ tasks[ws][1].message.type = "SYSTEM"
           /\ \A c \in Conns :
                Received(c, IF c # ws /\ readyState[c] = OPEN
                            THEN Copies(tasks[ws][1].message, Cardinality(SessionsOn(c)))
                            ELSE << >>)

C5_JoinNotice == [][C5_LoginStart /\ C5_JoinBroadcast]_vars

\* C5 witness: connection 3 has logged in as C: connections 1 and 2 hold one
\* notice of it each and connection 3 holds none
Saying(c, content) == SelectSeq(outbox[c], LAMBDA f : f.type = "SYSTEM" /\ f.content = content)

C5_Witness ==
    /\ sessions = <<[userId |-> "A", ws |-> 1], [userId |-> "B", ws |-> 2],
                    [userId |-> "C", ws |-> 3]>>
    /\ Len(Saying(1, "C joined the chat")) = 1
    /\ Len(Saying(2, "C joined the chat")) = 1
    /\ Saying(3, "C joined the chat") = << >>
    /\ LoginSuccess("C") \in {outbox[3][i] : i \in 1 .. Len(outbox[3])}

\* C6 (leave notice).  When a connection bound to U closes, U's session is
\* removed and one SYSTEM message "U left the chat" is stored and then
\* broadcast: one copy to every remaining session on an open connection.
\* When a connection that is not bound closes, nothing is stored, nothing is
\* or will be broadcast, and the registry is unchanged.
CloseStep(ws) == readyState[ws] \in {OPEN, CLOSING} /\ readyState'[ws] = CLOSED

C6_CloseBound ==
    \A ws \in Conns :
        (CloseStep(ws) /\ Registered(ws))
        => LET U == findUserIdByWs(sessions, ws)
               m == SystemMessage(uuid(nextId), U \o " left the chat")
           IN  /\ sessions' = SelectSeq(sessions, LAMBDA x : x.userId # U)
               /\ messages' = Append(messages, m)
               /\ closeTask'[ws] = [pc |-> "handleClose:save", message |-> m]
               /\ outbox' = outbox

C6_LeaveBroadcast ==
    \A ws \in Conns :
        (closeTask[ws] # NoTask /\ closeTask'[ws] = NoTask)
        => \A c \in Conns :
             Received(c, IF readyState[c] = OPEN
                         THEN Copies(closeTask[ws].message, Cardinality(SessionsOn(c)))
                         ELSE << >>)

C6_CloseUnbound ==
    \A ws \in Conns :
        (CloseStep(ws) /\ ~Registered(ws))
        => /\ sessions' = sessions /\ messages' = messages /\ outbox' = outbox
           /\ closeTask'[ws] = NoTask

C6_LeaveNotice == [][C6_CloseBound /\ C6_LeaveBroadcast /\ C6_CloseUnbound]_vars

\* C6 witness: connection 3, bound to C, has closed: its session is gone and
\* connections 1 and 2 hold one "C left the chat" each
C6_Witness ==
    /\ readyState[3] = CLOSED
    /\ sessions = <<[userId |-> "A", ws |-> 1], [userId |-> "B", ws |-> 2]>>
    /\ Len(Saying(1, "C left the chat")) = 1
    /\ Len(Saying(2, "C left the chat")) = 1

\* C7 (session destroyed on close).  Once the close of a connection has been
\* handled to its end and the connection has no payload queued or being
\* handled, the registry holds no session on that connection.
C7_SessionDestroyedOnClose ==
    \A c \in Conns :
        (/\ readyState[c] = CLOSED /\ closeTask[c] = NoTask
         /\ ~processing[c] /\ tasks[c] = << >> /\ queue[c] = << >>)
        => ~Registered(c)

\* C8 (one session per connection handle).  In every state of the registry
\* at most one session refers to a given connection.
C8_OneSessionPerConnection ==
    \A c \in Conns : Cardinality(SessionsOn(c)) <= 1

\* C9 (AUTHENTICATED is terminal until disconnect).  On an open connection
\* that has been sent LOGIN_SUCCESS, no TEXT, media or GET_HISTORY message is
\* answered "Not authenticated".
KnownTypes == {"TEXT", "GET_HISTORY"} \cup MediaTypes
HasLoggedIn(ws) == \E i \in 1 .. Len(outbox[ws]) : outbox[ws][i].type = "LOGIN_SUCCESS"

C9_Rejected ==
    \E ws \in Conns : \E data \in ChatPayloads :
        /\ HandleStep(ws, data) /\ ValidData(data, KnownTypes)
        /\ readyState[ws] = OPEN /\ HasLoggedIn(ws)
        /\ outbox'[ws] = Append(outbox[ws], ErrorFrame("Not authenticated"))

C9_AuthenticatedUntilDisconnect == [][~C9_Rejected]_vars

\* C10 as stated (refuted): on an open connection that is not bound, every
\* message of a type other than LOGIN is answered "Not authenticated", and
\* nothing is stored, broadcast or registered.
Quiet(ws) ==
    /\ sessions' = sessions /\ messages' = messages /\ nextId' = nextId
    /\ OthersUnchanged(ws) /\ Completes(ws)

C10_Stated ==
    \A ws \in Conns : \A data \in Payloads :
        (/\ HandleStep(ws, data) /\ ~Registered(ws) /\ readyState[ws] = OPEN
         /\ data.kind = "json" /\ data.type # "LOGIN")
        => /\ outbox'[ws] = Append(outbox[ws], ErrorFrame("Not authenticated"))
           /\ Quiet(ws)

C10_AsStated == [][C10_Stated]_vars

\* C10 (rejection while UNAUTHENTICATED).  On a connection that is not bound,
\* every payload other than a LOGIN message is rejected: nothing is stored,
\* broadcast or registered, and an open connection is sent one ERROR, which
\* says "Not authenticated" exactly when the message passes validation and is
\* of type TEXT, IMAGE, VIDEO, AUDIO or GET_HISTORY; any other payload gets
\* the error of its validation.
C10_Rejection ==
    \A ws \in Conns : \A data \in Payloads :
        (/\ HandleStep(ws, data) /\ ~Registered(ws)
         /\ ~(data.kind = "json" /\ data.type = "LOGIN"))
        => /\ Quiet(ws)
           /\ IF readyState[ws] = OPEN
              THEN /\ Len(outbox'[ws]) = Len(outbox[ws]) + 1
                   /\ SubSeq(outbox'[ws], 1, Len(outbox[ws])) = outbox[ws]
                   /\ outbox'[ws][Len(outbox'[ws])].type = "ERROR"
                   /\ outbox'[ws][Len(outbox'[ws])].message = "Not authenticated"
                      <=> ValidData(data, KnownTypes)
              ELSE outbox'[ws] = outbox[ws]

C10_RejectedUnauthenticated == [][C10_Rejection]_vars

\* C10 witness: two connections, neither bound: one has been refused a TEXT
\* for want of a login, the other a SYSTEM message by validation
C10_Witness ==
    /\ sessions = << >> /\ messages = << >>
    /\ outbox[1] = <<ErrorFrame("Not authenticated")>>
    /\ outbox[2] = <<ErrorFrame("SYSTEM messages cannot be sent by clients")>>
    /\ arrived[1] = <<Text("hi", 0)>>

\* C11 (malformed input).  A payload that is not JSON, or JSON that
\* validateMessage rejects (no object, no type, LOGIN without userId, TEXT
\* without content), is answered with one ERROR frame on its connection when
\* that is open; no session, stored message, id or other connection's frames
\* change, the handler ends and the drain flag is held only by a drain in
\* flight; and a LOGIN that follows such a payload on the same open
\* connection registers the user and is answered LOGIN_SUCCESS first.
Invalid(data) == data.kind # "json" \/ validateMessage(data) # NoError

AnsweredError(ws) ==
    /\ Len(outbox'[ws]) = Len(outbox[ws]) + 1
    /\ SubSeq(outbox'[ws], 1, Len(outbox[ws])) = outbox[ws]
    /\ outbox'[ws][Len(outbox'[ws])].type = "ERROR"

C11_Rejected ==
    \A ws \in Conns : \A data \in Payloads :
        (HandleStep(ws, data) /\ Invalid(data))
        => /\ Quiet(ws)
           /\ processing'[ws] = (tasks'[ws] # << >>)
           /\ IF readyState[ws] = OPEN THEN AnsweredError(ws)
              ELSE outbox'[ws] = outbox[ws]

C11_ThenValid ==
    \A ws \in Conns : \A u \in {"A", "B"} :
        (/\ HandleStep(ws, Login(u)) /\ readyState[ws] = OPEN
         /\ \E i \in 1 .. Len(arrived[ws]) : Invalid(arrived[ws][i]))
        => /\ sessions' = createSession(sessions, u, ws)
           /\ Len(outbox'[ws]) > Len(outbox[ws])
           /\ outbox'[ws][Len(outbox[ws]) + 1] = LoginSuccess(u)

C11_MalformedInput == [][C11_Rejected /\ C11_ThenValid]_vars

\* a LOGIN has been accepted on a connection after it was sent a payload that
\* is not JSON and a LOGIN without userId, each answered with an ERROR
C11_Witness ==
    \E ws \in Conns : \E data \in {BadPayload, Login("")} :
        /\ arrived[ws] = <<data, Login("A")>>
        /\ Len(outbox[ws]) >= 2
        /\ outbox[ws][1].type = "ERROR"
        /\ outbox[ws][2] = LoginSuccess("A")
        /\ Registered(ws)

\* C12 (storage failure isolation).  On a store whose every call rejects:
\* the store holds nothing, and no drain ends while payloads wait; a TEXT of
\* a bound sender is broadcast once to every session on an open connection
\* other than the sender's; a LOGIN registers the user, is answered
\* LOGIN_SUCCESS and its join notice is broadcast to every session on another
\* open connection; the close of a bound connection removes the session and
\* its leave notice is broadcast to every session on an open connection.
ToSessions(c, m) == Copies(m, Cardinality(SessionsOn(c)))

C12_Alive ==
    /\ messages = << >>
    /\ \A ws \in Conns :
         /\ queue[ws] # << >> => processing[ws]
         /\ processing[ws] = (tasks[ws] # << >>)

C12_Text ==
    \A s \in Conns : \A data \in FailPayloads :
        /\ (/\ HandleStep(s, data) /\ ValidData(data, {"TEXT"})
            /\ findUserIdByWs(sessions, s) # NoUser)
           => /\ Awaits(s, [pc |-> "handleTextMessage:save",
                            message |-> ChatMessage("TEXT", uuid(nextId),
                                                    findUserIdByWs(sessions, s),
                                                    data.content)])
              /\ outbox' = outbox
        /\ ResumeStep(s, "handleTextMessage:save")
           => \A c \in Conns :
                Received(c, IF c # s /\ readyState[c] = OPEN
                            THEN ToSessions(c, tasks[s][1].message) ELSE << >>)

C12_Join ==
    \A ws \in Conns : \A data \in FailPayloads :
        /\ (HandleStep(ws, data) /\ ValidData(data, {"LOGIN"}))
           => /\ sessions' = createSession(sessions, data.userId, ws)
              /\ Awaits(ws, [pc |-> "handleLogin:save",
                             message |-> SystemMessage(uuid(nextId),
                                                       data.userId \o " joined the chat")])
              /\ Received(ws, IF readyState[ws] = OPEN
                              THEN <<LoginSuccess(data.userId)>> ELSE << >>)
              /\ OthersUnchanged(ws)
        /\ ResumeStep(ws, "handleLogin:save")
           => \A c \in Conns :
                Received(c, IF c # ws /\ readyState[c] = OPEN
                            THEN ToSessions(c, tasks[ws][1].message) ELSE << >>)

C12_Leave ==
    \A ws \in Conns :
        /\ (CloseStep(ws) /\ Registered(ws))
           => LET U == findUserIdByWs(sessions, ws)
              IN  /\ sessions' = removeSession(sessions, U)
                  /\ closeTask'[ws] =
                       [pc |-> "handleClose:save",
                        message |-> SystemMessage(uuid(nextId), U \o " left the chat")]
                  /\ outbox' = outbox
        /\ (closeTask[ws] # NoTask /\ closeTask'[ws] = NoTask)
           => \A c \in Conns :
                Received(c, IF readyState[c] = OPEN
                            THEN ToSessions(c, closeTask[ws].message) ELSE << >>)

C12_StorageFailureIsolation == [](C12_Alive) /\ [][C12_Text /\ C12_Join /\ C12_Leave]_vars

\* on the failing store C has logged in on connection 3, A has sent a TEXT
\* and connection 3 has closed: connection 2 holds the join notice, A's TEXT
\* and the leave notice, connection 1 both notices and no TEXT
C12_Witness ==
    /\ storage = "failing" /\ messages = << >>
    /\ readyState[3] = CLOSED
    /\ Len(Saying(1, "C joined the chat")) = 1 /\ Len(Saying(2, "C joined the chat")) = 1
    /\ Len(Saying(1, "C left the chat")) = 1 /\ Len(Saying(2, "C left the chat")) = 1
    /\ Frames(1, "TEXT") = << >>
    /\ Len(Frames(2, "TEXT")) = 1 /\ Frames(2, "TEXT")[1].senderId = "A"

\* C13 (an error in one payload does not stop the drain).  When ws.send
\* throws out of a handler (the "Invalid user ID" answer of handleLogin, the
\* "Not authenticated" answer of handleGetHistory, or the answer sent by a
\* handler's catch block after a first throw), handleMessage ends in the same
\* step, the connection gains the ERROR "Failed to process message" exactly
\* when it is open and that send does not throw as well, and nothing else
\* changes; the drain goes on with the payloads behind, oldest first; a drain
\* is in flight whenever payloads wait, and the flag is set exactly while a
\* drain is in flight.
Thrown(ws, data) == IF data.type = "TEXT" THEN 2 ELSE 1

Escapes(ws, data) ==
    /\ data.fails >= Thrown(ws, data)
    /\ \/ data.type = "LOGIN" /\ TrimIsEmpty(data.userId)
       \/ data.type \in {"GET_HISTORY", "TEXT"} /\ ~Registered(ws)

C13_Caught ==
    \A ws \in Conns : \A data \in ThrowPayloads :
        (HandleStep(ws, data) /\ Escapes(ws, data))
        => /\ Quiet(ws)
           /\ Received(ws, IF readyState[ws] = OPEN /\ data.fails = Thrown(ws, data)
                           THEN <<ErrorFrame("Failed to process message")>>
                           ELSE << >>)

C13_InOrder ==
    \A ws \in Conns :
        (/\ Len(tasks[ws]) = 1 /\ tasks[ws][1].pc = "loop" /\ tasks'[ws] # tasks[ws]
         /\ queue[ws] # << >>)
        => queue'[ws] = Tail(queue[ws])

C13_Draining ==
    \A ws \in Conns :
        /\ queue[ws] # << >> => tasks[ws] # << >>
        /\ processing[ws] = (tasks[ws] # << >>)

C13_DrainSurvivesError == [](C13_Draining) /\ [][C13_Caught /\ C13_InOrder]_vars

\* connection 3 has sent LOGIN C and, while that was being stored, a blank
\* LOGIN during which ws.send throws once, and a TEXT: the blank LOGIN has
\* been answered with the ERROR, and the drain is about to go on with the TEXT
C13_Witness ==
    /\ arrived[3] = <<Login("C"), Failing(Login(" "), 1), Text("hi", 0)>>
    /\ SelectSeq(outbox[3], LAMBDA f : f.type \in {"LOGIN_SUCCESS", "ERROR"})
         = <<LoginSuccess("C"), ErrorFrame("Failed to process message")>>
    /\ queue[3] = <<Text("hi", 0)>>
    /\ tasks[3] = <<[pc |-> "loop"]>> /\ processing[3]

\* C14 (queue discarded on close; refuted).  Once a connection is closed, no
\* handleMessage begins on it: the payloads that waited in its queue at the
\* close are never processed.
C14_Processed ==
    \E ws \in Conns : \E data \in Payloads :
        readyState[ws] = CLOSED /\ HandleStep(ws, data)

C14_QueueDiscardedOnClose == [][~C14_Processed]_vars

\* C15 (persistence round trip).  When messages have been saved one after
\* the other in a cleared store, getAllMessages() returns exactly those
\* messages, field for field, in the order of the saves; and once the last
\* save has ended the file holds them, in that order, as well.
Pushed == [k \in 1 .. Len(saved) |-> saved[k].message]

Min(a, b) == IF a < b THEN a ELSE b

BlockBefore(msgs, k, limit) == SubSeq(msgs, k - Min(limit, k - 1), k - 1)

C16_HistoryRange ==
    result.op = "getMessagesBefore"
    => \A k \in 1 .. Len(result.of) :
         result.of[k].id = result.messageId
         => result.messages = BlockBefore(result.of, k, result.limit)

\* C17 (history without a reference; refuted).  getMessagesBefore with a
\* messageId that is absent or is no stored message's id returns, for every
\* limit >= 0, the last min(limit, n) of the n stored messages.
C17_MostRecent ==
    (/\ result.op = "getMessagesBefore"
     /\ \A k \in 1 .. Len(result.of) : result.of[k].id # result.messageId)
    => result.messages = SubSeq(result.of,
                                Len(result.of) - Min(result.limit, Len(result.of)) + 1,
                                Len(result.of))

\* C18 (hasMore).  Every GET_HISTORY that passes validation on an open, bound
\* connection is answered with one HISTORY_RESPONSE whose hasMore is true
\* exactly when it carries as many messages as the limit asked for, 20 when
\* the request gives none.
Requested(data) == IF data.limit.t = "undefined" THEN 20 ELSE data.limit.v

C18_Answered ==
    \A ws \in Conns : \A data \in HistoryPayloads[ws] :
        (/\ HandleStep(ws, data) /\ ValidData(data, {"GET_HISTORY"})
         /\ Registered(ws) /\ readyState[ws] = OPEN)
        => /\ Len(outbox'[ws]) = Len(outbox[ws]) + 1
           /\ LET f == outbox'[ws][Len(outbox'[ws])]
              IN  /\ f.type = "HISTORY_RESPONSE"
                  /\ f.hasMore = (Len(f.messages) = Requested(data))

C18_HasMore == [][C18_Answered]_vars

\* connection 1 holds, after the history of its login, an answer with 20
\* messages and hasMore and an answer with fewer messages and no hasMore
C18_Witness ==
    \E i, j \in 2 .. Len(outbox[1]) :
        /\ outbox[1][i].type = "HISTORY_RESPONSE" /\ outbox[1][j].type = "HISTORY_RESPONSE"
        /\ Len(outbox[1][i].messages) = 20 /\ outbox[1][i].hasMore
        /\ Len(outbox[1][j].messages) \in 1 .. 3 /\ ~outbox[1][j].hasMore

\* The in-memory list ends with the messages that saveMessage calls have
\* pushed, in the order of the pushes
PushedKept ==
    /\ Len(messages) >= Len(saved)
    /\ SubSeq(messages, Len(messages) - Len(saved) + 1, Len(messages)) = Pushed

\* C19 (overlapping saves; refuted).  Once messages have been saved and every
\* call has ended, all of them with their write done, and the in-memory list
\* holds every saved message, the file holds the messages of the in-memory
\* list, in its order.
C19_FileHoldsList ==
    (/\ saved # << >> /\ InFlight = {}
     /\ \A k \in 1 .. Len(saved) : saved[k].status = "ok"
     /\ PushedKept)
    => loadMessages(file) = messages

\* C20 (initialize; refuted).  No initialize(), explicit or from a first
\* saveMessage, discards a message that a saveMessage call has pushed: the
\* in-memory list always ends with the pushed messages.
C20_InitializeKeeps == PushedKept

\* C21 (SYSTEM is the server's).  A SYSTEM message from a client, on a bound
\* or an unbound connection, is answered with the ERROR "SYSTEM messages
\* cannot be sent by clients" when the connection is open and changes no
\* session, no stored message and no other connection's frames; and every
\* SYSTEM message in the store or delivered to a connection is a join or a
\* leave notice with an id the server generated.
ServerNotice(m) ==
    /\ m.id \in 1 .. nextId
    /\ \E u \in {"A", "B"} : m.content \in {u \o " joined the chat", u \o " left the chat"}

C21_OnlyNotices ==
    /\ \A i \in 1 .. Len(messages) : messages[i].type = "SYSTEM" => ServerNotice(messages[i])
    /\ \A c \in Conns : \A i \in 1 .. Len(outbox[c]) :
         outbox[c][i].type = "SYSTEM" => ServerNotice(outbox[c][i])

C21_Rejected ==
    \A ws \in Conns : \A data \in Payloads :
        (HandleStep(ws, data) /\ data.kind = "json" /\ data.type = "SYSTEM")
        => /\ Quiet(ws)
           /\ Received(ws, IF readyState[ws] = OPEN
                           THEN <<ErrorFrame("SYSTEM messages cannot be sent by clients")>>
                           ELSE << >>)

C21_SystemFromServerOnly == [](C21_OnlyNotices) /\ [][C21_Rejected]_vars

\* connection 1, bound to A, has sent a SYSTEM message and holds the ERROR as
\* its last frame; the store holds A's join notice only
C21_Witness ==
    /\ arrived[1] = <<Login("A"), Other("SYSTEM")>>
    /\ Registered(1) /\ readyState[1] = OPEN
    /\ outbox[1] = <<LoginSuccess("A"),
                     ErrorFrame("SYSTEM messages cannot be sent by clients")>>
    /\ messages = <<SystemMessage(1, "A joined the chat")>>

\* C22 (session independence).  While the registered userIds are on pairwise
\* distinct connections, getSession of each userId gives its own connection,
\* findUserIdByWs of each of these connections gives the userId registered
\* on it and of any other connection gives none; and the LOGIN of one more
\* userId on one more connection makes the registry one session larger and
\* keeps this so.
DistinctConnections(sess) ==
    \A i, j \in 1 .. Len(sess) : i # j => sess[i].ws # sess[j].ws

Independent(sess) ==
    /\ Cardinality({sess[i].userId : i \in 1 .. Len(sess)}) = Len(sess)
    /\ \A i \in 1 .. Len(sess) :
         /\ getSession(sess, sess[i].userId) = sess[i].ws
         /\ findUserIdByWs(sess, sess[i].ws) = sess[i].userId
    /\ \A c \in Conns :
         (\A i \in 1 .. Len(sess) : sess[i].ws # c) => findUserIdByWs(sess, c) = NoUser

C22_Registered == DistinctConnections(sessions) => Independent(sessions)

C22_OneMore ==
    \A ws \in Conns : \A data \in ChatPayloads :
        (/\ HandleStep(ws, data) /\ ValidData(data, {"LOGIN"})
         /\ SessionIndex(sessions, data.userId) = {}
         /\ ~Registered(ws) /\ DistinctConnections(sessions))
        => /\ Len(sessions') = Len(sessions) + 1
           /\ DistinctConnections(sessions')
           /\ Independent(sessions')
           /\ getSession(sessions', data.userId) = ws

C22_SessionIndependence == [](C22_Registered) /\ [][C22_OneMore]_vars

\* three userIds are registered on three connections
C22_Witness ==
    /\ Len(sessions) = 3 /\ DistinctConnections(sessions)
    /\ getSession(sessions, "A") = 1 /\ getSession(sessions, "B") = 2
    /\ getSession(sessions, "C") = 3
    /\ \A c \in Conns : findUserIdByWs(sessions, c) = sessions[c].userId

\* C23 (per-recipient isolation).  Every broadcast (a TEXT, excluding its
\* sender; a media message; a join notice, excluding the connection that
\* logged in; a leave notice) delivers the message once per session to every
\* connection that is open, is not the excluded one and whose ws.send does
\* not throw, whichever sessions come before it in the registry; the other
\* connections receive nothing.
Delivered(c, exclude, m) ==
    Received(c, IF c # exclude /\ readyState[c] = OPEN /\ c \notin broken
                THEN ToSessions(c, m) ELSE << >>)

C23_Broadcasts ==
    \A ws \in Conns :
        /\ (ResumeStep(ws, "handleTextMessage:save") \/ ResumeStep(ws, "handleLogin:save"))
           => \A c \in Conns : Delivered(c, ws, tasks[ws][1].message)
        /\ ResumeStep(ws, "handleMediaMessage:save")
           => \A c \in Conns : Delivered(c, NoConn, tasks[ws][1].message)
        /\ (closeTask[ws] # NoTask /\ closeTask'[ws] = NoTask)
           => \A c \in Conns : Delivered(c, NoConn, closeTask[ws].message)

C23_RecipientIsolation == [][C23_Broadcasts]_vars

\* ws.send throws on connection 2, whose session B comes before C's in the
\* registry: a TEXT of A has reached connection 3 and not connection 2
C23_Witness ==
    /\ broken = {2}
    /\ sessions = <<[userId |-> "A", ws |-> 1], [userId |-> "B", ws |-> 2],
                    [userId |-> "C", ws |-> 3]>>
    /\ readyState[2] = OPEN /\ readyState[3] = OPEN
    /\ Len(Frames(3, "TEXT")) = 1 /\ Frames(3, "TEXT")[1].senderId = "A"
    /\ Frames(2, "TEXT") = << >>

\* C24 as stated (refuted): every successful LOGIN on the file-backed store
\* is answered LOGIN_SUCCESS and then a history response.
SuccessfulLogin(ws, data) ==
    /\ HandleStep(ws, data) /\ ValidData(data, {"LOGIN"}) /\ ~TrimIsEmpty(data.userId)
    /\ data.fails = 0 /\ readyState[ws] = OPEN

C24_Stated ==
    \A ws \in Conns : \A data \in LoginPayloads[ws] :
        (SuccessfulLogin(ws, data) /\ storage = "file")
        => /\ Len(outbox'[ws]) = Len(outbox[ws]) + 2
           /\ outbox'[ws][Len(outbox[ws]) + 1] = LoginSuccess(data.userId)
           /\ outbox'[ws][Len(outbox[ws]) + 2].type = "HISTORY_RESPONSE"

C24_AsStated == [][C24_Stated]_vars

\* C24 (login order).  A successful LOGIN registers the session and, in this
\* order, sends LOGIN_SUCCESS, sends the history response when the store has
\* returned at least one message (the 50 most recent ones, or all when there
\* are fewer; none is sent on an empty store or when the load fails), and
\* stores the join notice, which the history does not hold; no notice is
\* sent before the save has ended, and then it is broadcast to the others,
\* the store holding it.  When the load fails the session is registered and
\* the notice is broadcast all the same.  The session is registered before
\* LOGIN_SUCCESS is sent: it is there when that send throws.
MostRecent(msgs, n) == SubSeq(msgs, Len(msgs) - Min(n, Len(msgs)) + 1, Len(msgs))

C24_Login ==
    \A ws \in Conns : \A data \in LoginPayloads[ws] :
        SuccessfulLogin(ws, data)
        => LET notice == SystemMessage(uuid(nextId), data.userId \o " joined the chat")
               recent == MostRecent(messages, 50)
           IN  /\ sessions' = createSession(sessions, data.userId, ws)
               /\ Received(ws, <<LoginSuccess(data.userId)>> \o
                               (IF storage = "file" /\ recent # << >>
                                THEN <<HistoryResponse(recent, Len(recent) = 50)>>
                                ELSE << >>))
               /\ OthersUnchanged(ws)
               /\ messages' = IF storage = "file" THEN Append(messages, notice) ELSE messages
               /\ Awaits(ws, [pc |-> "handleLogin:save", message |-> notice])

C24_Notice ==
    \A ws \in Conns :
        ResumeStep(ws, "handleLogin:save")
        => /\ storage = "file"
              => \E i \in 1 .. Len(messages) : messages[i] = tasks[ws][1].message
           /\ sessions' = sessions
           /\ \A c \in Conns :
                Received(c, IF c # ws /\ readyState[c] = OPEN
                            THEN ToSessions(c, tasks[ws][1].message) ELSE << >>)

C24_RegisteredFirst ==
    \A ws \in Conns : \A data \in LoginPayloads[ws] :
        (HandleStep(ws, data) /\ data.fails = 1 /\ readyState[ws] = OPEN)
        => /\ sessions' = createSession(sessions, data.userId, ws)
           /\ Received(ws, <<ErrorFrame("Login failed")>>)

C24_LoginOrder == [][C24_Login /\ C24_Notice /\ C24_RegisteredFirst]_vars

\* C has logged in on a store of 51 messages: connection 3 holds LOGIN_SUCCESS
\* and then a history of the 50 most recent ones, and connections 1 and 2 the
\* join notice
C24_Witness ==
    /\ storage = "file"
    /\ Len(outbox[3]) = 2
    /\ outbox[3][1] = LoginSuccess("C")
    /\ outbox[3][2].type = "HISTORY_RESPONSE" /\ Len(outbox[3][2].messages) = 50
    /\ outbox[3][2].hasMore
    /\ Len(messages) = 52
    /\ Len(Saying(1, "C joined the chat")) = 1 /\ Len(Saying(2, "C joined the chat")) = 1

\* C25 (ids are unique; refuted): no two messages of the store have the
\* same id.
C25_UniqueIds ==
    \A i, j \in 1 .. Len(messages) : messages[i].id = messages[j].id => i = j

\* C26 (the stores are interchangeable; refuted): given the same saveMessage
\* calls, getAllMessages and getMessagesBefore return the same messages from
\* the file-backed store and from the table-backed store.
C26_Interchangeable ==
    result.op \in {"both:getAllMessages", "both:getMessagesBefore"}
    => result.messages = result.table

\* C27 (a failed history read is an empty result).  On a store whose reads
\* fail, a GET_HISTORY of a registered connection is answered with a
\* HISTORY_RESPONSE without messages and with nothing else; no other
\* connection receives anything, registry and store are left as they were,
\* and the handler ends in that step, so that the connection's queue goes on:
\* no ERROR 'Failed to retrieve message history' is ever sent.
C27_Answered ==
    \A ws \in Conns : \A data \in UnreadablePayloads[ws] :
        (/\ HandleStep(ws, data) /\ ValidData(data, {"GET_HISTORY"})
         /\ findUserIdByWs(sessions, ws) # NoUser /\ readyState[ws] = OPEN)
        => /\ \E hasMore \in BOOLEAN : Received(ws, <<HistoryResponse(<< >>, hasMore)>>)
           /\ OthersUnchanged(ws)
           /\ sessions' = sessions /\ messages' = messages
           /\ Completes(ws)

C27_NoError ==
    \A c \in Conns : \A i \in 1 .. Len(outbox[c]) :
        outbox[c][i] # ErrorFrame("Failed to retrieve message history")

C27_EmptyHistory == [](C27_NoError) /\ [][C27_Answered]_vars

\* A has asked for history, has been answered with an empty one, and its
\* text, sent afterwards, has reached B
C27_Witness ==
    /\ storage = "unreadable"
    /\ arrived[1] = <<Login("A"), GetHistory(JsUndefined, JsUndefined), Text("hi", 0)>>
    /\ Frames(1, "HISTORY_RESPONSE") = <<HistoryResponse(<< >>, FALSE)>>
    /\ Len(Frames(2, "TEXT")) = 1

\* C28 (senderId is server-assigned).  The message made from a TEXT or media
\* payload of a bound connection has as senderId the userId the registry
\* binds to that connection (the first such entry, when the connection has
\* logged in under several), whatever senderId the payload carries; that
\* message is the one stored, and the one every recipient of the broadcast
\* receives.
UserIdsOn(c) == {sessions[i].userId : i \in SessionsOn(c)}

C28_Assigned ==
    \A ws \in Conns : \A data \in SenderPayloads[ws] :
        (/\ HandleStep(ws, data) /\ ValidData(data, {"TEXT"} \cup MediaTypes)
         /\ ~TrimIsEmpty(data.content) /\ Registered(ws))
        => \E userId \in UserIdsOn(ws) :
             LET m == ChatMessage(data.type, uuid(nextId), userId, data.content)
             IN  /\ userId = findUserIdByWs(sessions, ws)
                 /\ messages' = Append(messages, m)
                 /\ Awaits(ws, [pc |-> "handle" \o (IF data.type = "TEXT" THEN "Text" ELSE "Media")
                                          \o "Message:save", message |-> m])

C28_Broadcast ==
    \A ws \in Conns :
        (\/ ResumeStep(ws, "handleTextMessage:save")
         \/ ResumeStep(ws, "handleMediaMessage:save"))
        => \A c \in Conns : \A i \in Len(outbox[c]) + 1 .. Len(outbox'[c]) :
              outbox'[c][i] = tasks[ws][1].message

C28_Stored ==
    /\ \A i \in 1 .. Len(messages) :
         messages[i].type # "SYSTEM" => messages[i].senderId = "A"
    /\ \A c \in Conns : \A i \in 1 .. Len(outbox[c]) :
         outbox[c][i].type \in {"TEXT"} \cup MediaTypes => outbox[c][i].senderId = "A"

C28_ServerAssignedSender == [](C28_Stored) /\ [][C28_Assigned /\ C28_Broadcast]_vars

\* A, on connection 1, has sent a TEXT that names B as its sender: the store
\* and B's connection hold it as a message of A
C28_Witness ==
    /\ arrived[1] = <<Login("A"), From(Text("hi", 0), "B")>>
    /\ messages[Len(messages)] = ChatMessage("TEXT", 3, "A", "hi")
    /\ Frames(2, "TEXT") = <<ChatMessage("TEXT", 3, "A", "hi")>>

\* C29 (re-login overwrite; refuted): when a LOGIN for a userId bound to
\* another connection c1 is handled on the open connection c2, c2 is sent
\* LOGIN_SUCCESS, the registry binds the userId to c2 and to nothing else, c1
\* stays as open as it was and is no longer registered, and c1 receives
\* nothing in that step nor when the join notice is broadcast.
Relogin(c1, c2, data) ==
    /\ HandleStep(c2, data) /\ ValidData(data, {"LOGIN"}) /\ ~TrimIsEmpty(data.userId)
    /\ readyState[c2] = OPEN
    /\ c1 # c2 /\ getSession(sessions, data.userId) = c1

C29_Overwritten ==
    \A c1, c2 \in Conns : \A data \in ChatPayloads :
        Relogin(c1, c2, data)
        => /\ outbox'[c2][Len(outbox[c2]) + 1] = LoginSuccess(data.userId)
           /\ \A i \in 1 .. Len(sessions') :
                sessions'[i].userId = data.userId => sessions'[i].ws = c2
           /\ getSession(sessions', data.userId) = c2
           /\ readyState'[c1] = readyState[c1]
           /\ \A i \in 1 .. Len(sessions') : sessions'[i].ws # c1
           /\ outbox'[c1] = outbox[c1]

C29_NoBroadcast ==
    \A ws, c \in Conns :
        (ResumeStep(ws, "handleLogin:save") /\ ~Registered(c)) => outbox'[c] = outbox[c]

C29_ReloginOverwrite == [][C29_Overwritten /\ C29_NoBroadcast]_vars

\* C30 (persist, then broadcast).  The step that accepts a TEXT or media
\* payload puts the message in the store's list and sends nothing: the handler
\* waits for saveMessage.  The broadcast is made when that call has ended,
\* and the list holds the message then; so every TEXT or media message a
\* connection has received is in the list.
Stored(m) == \E i \in 1 .. Len(messages) : messages[i] = m

C30_SaveFirst ==
    \A ws \in Conns : \A data \in ChatPayloads :
        (/\ HandleStep(ws, data) /\ ValidData(data, {"TEXT"} \cup MediaTypes)
         /\ ~TrimIsEmpty(data.content) /\ Registered(ws))
        => /\ outbox' = outbox
           /\ Len(tasks'[ws]) = 1 /\ tasks'[ws][1].pc \in {"handleTextMessage:save",
                                                            "handleMediaMessage:save"}
           /\ messages' = Append(messages, tasks'[ws][1].message)

C30_ThenBroadcast ==
    \A ws \in Conns :
        (\/ ResumeStep(ws, "handleTextMessage:save")
         \/ ResumeStep(ws, "handleMediaMessage:save"))
        => /\ Stored(tasks[ws][1].message)
           /\ messages' = messages

C30_Received ==
    \A c \in Conns : \A i \in 1 .. Len(outbox[c]) :
        outbox[c][i].type \in {"TEXT"} \cup MediaTypes => Stored(outbox[c][i])

C30_PersistThenBroadcast == [](C30_Received) /\ [][C30_SaveFirst /\ C30_ThenBroadcast]_vars

\* A's IMAGE has been broadcast: both connections hold it, and the list does
C30_Witness ==
    /\ Frames(1, "IMAGE") = <<ChatMessage("IMAGE", 3, "A", "img")>>
    /\ Frames(2, "IMAGE") = Frames(1, "IMAGE")
    /\ messages[3] = ChatMessage("IMAGE", 3, "A", "img")

\* C31 (the store is append-only).  Every step of the server leaves the
\* store's list as it was or appends to it: the list before the step is a
\* prefix of the list after it, so every earlier list is a prefix of every
\* later one and no stored message is deleted or modified.
C31_Prefix ==
    /\ Len(messages') >= Len(messages)
    /\ SubSeq(messages', 1, Len(messages)) = messages

C31_AppendOnly == [][C31_Prefix]_vars

\* A has logged in, sent a TEXT and left: the list holds its join notice, the
\* message and its leave notice, in this order
C31_Witness ==
    /\ Len(messages) = 3
    /\ messages[1] = SystemMessage(1, "A joined the chat")
    /\ messages[2] = ChatMessage("TEXT", 2, "A", "hi")
    /\ messages[3] = SystemMessage(3, "A left the chat")

\* C32 (a failed write keeps the message).  When the fs.writeFile of a
\* saveMessage fails, the call rejects and the list is left as it is: the list
\* is always the messages pushed, in the order of the pushes, whether their
\* write has failed or not.  getAllMessages returns that list and
\* getMessagesBefore(absent, limit) its last `limit` messages; and a write
\* that succeeds leaves in the file every message pushed up to its call, those
\* whose own write has failed included.
WriteEnds(i, status) ==
    /\ calls[i] # NoCall /\ calls[i].pc = "writeFile"
    /\ calls'[i] = NoCall
    /\ saved'[calls[i].k].status = status

C32_Kept ==
    /\ messages = Pushed
    /\ result.op = "getAllMessages" => result.messages = result.of
    /\ (result.op = "getMessagesBefore" /\ result.messageId = 0)
       => result.messages = slice(result.of, 0 - result.limit)
    /\ result.op # "none" => result.of = SubSeq(Pushed, 1, Len(result.of))

C32_Written ==
    \A i \in Callers :
        /\ WriteEnds(i, "failed") => messages' = messages
        /\ WriteEnds(i, "ok") => loadMessages(file') = SubSeq(Pushed, 1, calls[i].k)

C32_FailedWriteKeeps == [](C32_Kept) /\ [][C32_Written]_vars

\* the write of the first message has failed and the call has rejected; the
\* second save has succeeded: getAllMessages has returned both messages and
\* the file holds both
C32_Witness ==
    /\ Len(saved) = 2 /\ InFlight = {}
    /\ saved[1].status = "failed" /\ saved[2].status = "ok"
    /\ result.op = "getAllMessages" /\ result.messages = Pushed
    /\ loadMessages(file) = Pushed

\* C33 (close of a replaced connection; refuted): when a connection closes
\* whose last login was as U while U is now bound to another connection, no
\* session is removed, nothing is stored, nothing is sent and no leave notice
\* is left to be broadcast.
Logins(ws) == Frames(ws, "LOGIN_SUCCESS")
Replaced(ws) ==
    /\ Logins(ws) # << >>
    /\ getSession(sessions, Logins(ws)[Len(Logins(ws))].userId) \notin {ws, NoConn}

C33_Nothing(ws) ==
    /\ sessions' = sessions /\ messages' = messages /\ outbox' = outbox
    /\ closeTask'[ws] = NoTask

C33_ReplacedClose ==
    [][\A ws \in Conns : (CloseStep(ws) /\ Replaced(ws)) => C33_Nothing(ws)]_vars

\* C34 (no payload is stranded).  On an open connection with no drain
\* running the queue is empty, and the drain flag is set exactly while a
\* drain is in flight.  When every store call returns, the time comes from
\* which every connection that is open has an empty queue and no handler in
\* flight: every payload enqueued on a connection that stays open has been
\* taken from the queue (whose payloads leave it only to be handled) and its
\* handler has ended.

C34_NoneWaiting ==
    \A ws \in Conns :
        /\ (readyState[ws] = OPEN /\ ~processing[ws]) => queue[ws] = << >>
        /\ processing[ws] = (tasks[ws] # << >>)

C34_Drained ==
    \A ws \in Conns : readyState[ws] # OPEN \/ (queue[ws] = << >> /\ tasks[ws] = << >>)

C34_NoPayloadStranded == [](C34_NoneWaiting) /\ <>[](C34_Drained)

\* the whole burst has arrived on connection 1 while its first message was
\* being written: a payload waits behind the handler at its saveMessage
C34_Witness ==
    /\ Len(arrived[1]) = MaxLive + 1
    /\ Len(queue[1]) = MaxLive - 1
    /\ Len(tasks[1]) = 1 /\ tasks[1][1].pc = "handleTextMessage:save"
    /\ processing[1]

\* C35 (nothing is missed across a login).  On the file-backed store holding
\* fewer than 50 messages, once C is logged in on connection 3, which is open,
\* every TEXT message of A whose handler has ended is in a history response
\* that connection 3 has received or has been broadcast to it.
TextsOf(userId) ==
    {messages[i] : i \in {j \in 1 .. Len(messages) :
                            messages[j].type = "TEXT" /\ messages[j].senderId = userId}}
InHistory(c, m) ==
    \E i \in 1 .. Len(outbox[c]) :
        /\ outbox[c][i].type = "HISTORY_RESPONSE"
        /\ \E j \in 1 .. Len(outbox[c][i].messages) : outbox[c][i].messages[j] = m
Live(c, m) == \E i \in 1 .. Len(outbox[c]) : outbox[c][i] = m
InFlightAt(ws, pc) == tasks[ws] # << >> /\ tasks[ws][1].pc = pc
Handled(m) ==
    \A ws \in Conns : ~(InFlightAt(ws, "handleTextMessage:save") /\ tasks[ws][1].message = m)
LoggedInOn(c) == readyState[c] = OPEN /\ Logins(c) # << >>

C35_NoneMissed ==
    (storage = "file" /\ Len(messages) < LOGIN_HISTORY_LIMIT /\ LoggedInOn(3))
    => \A m \in TextsOf("A") : Handled(m) => (InHistory(3, m) \/ Live(3, m))

\* C's LOGIN is waiting for the save of its join notice; A's TEXT was
\* accepted after the history was read, and connection 3 has it by broadcast
C35_Witness ==
    /\ storage = "file" /\ Len(messages) < LOGIN_HISTORY_LIMIT /\ LoggedInOn(3)
    /\ InFlightAt(3, "handleLogin:save")
    /\ \E m \in TextsOf("A") : Handled(m) /\ Live(3, m) /\ ~InHistory(3, m)

\* C36 (nothing is delivered twice across a login; refuted): connection 3
\* never holds a TEXT message of A both in a history response and as a
\* broadcast.
C36_NoneTwice == \A m \in TextsOf("A") : ~(InHistory(3, m) /\ Live(3, m))

\* C37 (join precedes leave; refuted): when connection 3 has sent a single
\* LOGIN, as C, the store holds "C joined the chat" before "C left the chat",
\* and no connection receives the join notice after the leave notice.
Notice(f, text) == f.type = "SYSTEM" /\ f.content = text
Before(seq, first, second) ==
    \A i \in 1 .. Len(seq) : \A j \in 1 .. Len(seq) :
        (Notice(seq[i], second) /\ Notice(seq[j], first)) => j < i
OneLogin(ws) == Len(arrived[ws]) <= 1

C37_Persisted == OneLogin(3) => Before(messages, "C joined the chat", "C left the chat")

C37_Broadcast ==
    OneLogin(3) => \A c \in Conns : Before(outbox[c], "C joined the chat", "C left the chat")

C37_JoinBeforeLeave == C37_Persisted /\ C37_Broadcast

\* C38 as stated (refuted): when a page comes back empty, the pages put
\* together from the last to the first are the store.
RECURSIVE Joined(_)
Joined(pages) ==
    IF pages = << >> THEN << >> ELSE Joined(Tail(pages)) \o Head(pages).messages
PagingEnded == loaded # << >> /\ LastPage = << >>
Suffix(msgs, n) == SubSeq(msgs, Len(msgs) - n + 1, Len(msgs))

PagingEnds == loaded' # loaded /\ loaded'[Len(loaded')].messages = << >>

C38_AsStated == [][PagingEnds => Joined(loaded') = messages']_vars

\* C38 (backward paging).  With distinct ids and limit >= 1, the pages put
\* together from the last to the first are at every moment the most recent
\* messages of the store as it was at the first call, in save order and each
\* once, and when a page comes back empty they are that whole store; the
\* messages saved after the first call follow it in the store and are in no
\* page.
C38_PagingComplete ==
    loaded # << >>
    => LET first == loaded[1].of
           all == Joined(loaded)
       IN  /\ Len(all) <= Len(first) /\ all = Suffix(first, Len(all))
           /\ Cardinality(Ids(all)) = Len(all)
           /\ PagingEnded => all = first
           /\ Len(first) <= Len(messages) /\ SubSeq(messages, 1, Len(first)) = first

\* two messages were paged through one by one and the third page came back
\* empty; a message saved between the first and the second call is in the
\* store
C38_Witness ==
    /\ PagingEnded /\ pageLimit = 1 /\ Len(loaded) = 3
    /\ Len(loaded[1].of) = 2 /\ Len(loaded[2].of) = 3 /\ Len(messages) = 3

\* C39 (client reconnection; refuted): when a socket that is open is closed
\* without disconnect(), after a connect() and with fewer than 5 reconnect
\* attempts since the last open, a reconnect attempt is scheduled; and while
\* the last call is disconnect(), no socket is created and no timer is
\* pending.
Lost(k) == sockets[k] = OPEN /\ sockets'[k] = CLOSED

C39_Scheduled ==
    \A k \in 1 .. Len(sockets) :
        (Lost(k) /\ lastCall = "connect" /\ reconnectAttempts < maxReconnectAttempts)
        => reconnectTimer' /\ reconnectAttempts' = reconnectAttempts + 1

C39_NoneAfterDisconnect ==
    lastCall' = "disconnect" => (Len(sockets') = Len(sockets) /\ ~reconnectTimer')

C39_Reconnection == [][C39_Scheduled /\ C39_NoneAfterDisconnect]_vars

====
